---- MODULE Spec2Model ----
(***************************************************************************)
(* State-machine model of the videosync relay server (VideoSyncServer,     *)
(* src/unnamed/part_000): rooms, connections, counters, the message router, *)
(* the heartbeat and the empty-room sweep.                                  *)
(*                                                                          *)
(* Every handler of the server is a pure operator on a server-state record *)
(* S = [rooms, stats, ws, now, sent, calls]; an action of the model runs    *)
(* one whole handler (one Node.js callback, which runs to completion) and   *)
(* stores the result.  `sent` lists, in order, the frames the handler       *)
(* handed to an OPEN transport; `calls` lists its broadcastToRoom calls.    *)
(* Time is counted in minutes.                                              *)
(***************************************************************************)
EXTENDS Integers, Sequences, FiniteSets, TLC

VARIABLES rooms, stats, ws, now, serverState, sent, calls, last,
          manager, inbox, heard, wsClient, background, content

\* the extension's own objects, which no action of the server touches
extension == <<wsClient, background, content>>

vars == <<rooms, stats, ws, now, serverState, sent, calls, last,
          manager, inbox, heard, wsClient, background, content>>

(***************************************************************************)
(* Bounds of the model.                                                     *)
(***************************************************************************)
MaxConns == 3
MaxTicks == 2
MaxMsgs == 1
\* frames one client writes to its socket
MaxFrames == 2
\* sockets one WebSocketClient creates
MaxSockets == 6
\* sockets one BackgroundManager creates
MaxManagerSockets == 3

(***************************************************************************)
(* Program constants.                                                       *)
(***************************************************************************)
\* roomId.length > 50 is rejected
MaxRoomIdLen == 50
\* emptyTime > 5 * 60 * 1000 ms, in minutes
GracePeriod == 5
\* close codes used by the server
PolicyViolation == 1008
AbnormalClosure == 1006
GoingAway == 1001
\* WebSocketClient: the attempts allowed and the base delay in ms
maxReconnectAttempts == 5
reconnectInterval == 2000
\* the close code of a normal closure
NormalClosure == 1000

Conns == 1..MaxConns
NoConn == 0
NoTime == -1
\* a query parameter or property that is undefined
Absent == "<absent>"

Room50 == "r2345678901234567890123456789012345678901234567890"
Room51 == "r23456789012345678901234567890123456789012345678901"
ValidRoomIds == {"movie1", Room50}
QueryRoomIds == ValidRoomIds \cup {Absent, "", Room51}
\* the clientId parameter connection c may carry: the first names itself,
\* the second reuses that name or sends none, later ones send none
QueryClientIds(c) == IF c = 1 THEN {"A"} ELSE IF c = 2 THEN {"A", Absent} ELSE {Absent}
\* what generateClientId() may return: 'client_' + random + '_' + time
GeneratedIds == {"client_g"}

(***************************************************************************)
(* JSON values.  A value carries its JavaScript type so that typeof and     *)
(* truthiness are decided as the code decides them.                         *)
(***************************************************************************)
JUndef == [t |-> "undefined"]
JNull == [t |-> "null"]
JNum(n) == [t |-> "number", v |-> n]
JStr(s) == [t |-> "string", v |-> s]
JObj(f) == [t |-> "object", f |-> f]

\* obj.field of a parsed object: undefined when the field is missing
Field(obj, name) == IF name \in DOMAIN obj.f THEN obj.f[name] ELSE JUndef

\* JavaScript truthiness of a JSON value
Truthy(j) ==
    CASE j.t = "undefined" -> FALSE
      [] j.t = "null" -> FALSE
      [] j.t = "number" -> j.v # 0
      [] j.t = "string" -> j.v # ""
      [] OTHER -> TRUE

\* JSON.stringify of an object literal: `fixed` holds the fields the server
\* always sets, `opt` the fields copied from the inbound message; a field
\* whose value is undefined is left out of the text.
Stringify(fixed, opt) ==
    LET keep == {g \in DOMAIN opt : opt[g].t # "undefined"}
    IN  [k \in DOMAIN fixed \cup keep |->
            IF k \in DOMAIN fixed THEN fixed[k] ELSE opt[k]]

NoOpt == [x \in {} |-> JUndef]

\* JSON.parse(data): throws on text that is no JSON, else yields the value
JsonParse(data) ==
    IF data.parse = "fail" THEN [ok |-> FALSE] ELSE [ok |-> TRUE, value |-> data.value]

(***************************************************************************)
(* The rooms map: a Map keeps insertion order, so it is a sequence of       *)
(* entries; a room's Set of clients is a sequence without repetition.       *)
(***************************************************************************)
RoomIdsOf(rs) == {rs[i].id : i \in 1..Len(rs)}
RoomsHas(rs, id) == id \in RoomIdsOf(rs)
RoomsGet(rs, id) == rs[CHOOSE i \in 1..Len(rs) : rs[i].id = id]
RoomsSet(rs, id, room) ==
    IF RoomsHas(rs, id)
    THEN [i \in 1..Len(rs) |-> IF rs[i].id = id THEN room ELSE rs[i]]
    ELSE Append(rs, room)
RoomsDelete(rs, id) == SelectSeq(rs, LAMBDA r : r.id # id)

Range(s) == {s[i] : i \in 1..Len(s)}
SetAdd(s, x) == IF x \in Range(s) THEN s ELSE Append(s, x)
SetDelete(s, x) == SelectSeq(s, LAMBDA y : y # x)

(***************************************************************************)
(* The transport (the ws library): send() on a socket that is not OPEN      *)
(* writes nothing.  A delivery records the recipient, the frame, and the    *)
(* room id of the broadcastToRoom call it came from (Absent: a private      *)
(* ws.send).                                                                *)
(***************************************************************************)
Deliver(S, c, roomId, text) ==
    IF S.ws[c].readyState = "OPEN"
    THEN [S EXCEPT !.sent = Append(@, [to |-> c, room |-> roomId, msg |-> text])]
    ELSE S

\* a variant of ws.send that writes the frame to every open socket
SendToEveryone(S, c, text) ==
    LET RECURSIVE Each(_, _)
        Each(T, d) == IF d > MaxConns THEN T
                      ELSE Each(Deliver(T, d, Absent, text), d + 1)
    IN  Each(S, 1)

\* ws.send(JSON.stringify(...)) to one connection
Send(S, c, text) == Deliver(S, c, Absent, text)

\* a variant of the loop that gives up at the first member it cannot reach
RECURSIVE BroadcastLoopStopOnFailure(_, _, _, _, _)
BroadcastLoopStopOnFailure(S, members, roomId, excludeWs, text) ==
    IF members = <<>> THEN S
    ELSE LET client == Head(members)
         IN  IF client = excludeWs
             THEN BroadcastLoopStopOnFailure(S, Tail(members), roomId, excludeWs, text)
             ELSE IF S.ws[client].readyState # "OPEN" THEN S
             ELSE BroadcastLoopStopOnFailure(Deliver(S, client, roomId, text),
                      Tail(members), roomId, excludeWs, text)

RECURSIVE BroadcastLoop(_, _, _, _, _)
BroadcastLoop(S, members, roomId, excludeWs, text) ==
    IF members = <<>> THEN S
    ELSE LET client == Head(members)
             S1 == IF client # excludeWs /\ S.ws[client].readyState = "OPEN"
                   THEN Deliver(S, client, roomId, text)
                   ELSE S
         IN  BroadcastLoop(S1, Tail(members), roomId, excludeWs, text)

\* a variant that sends without looking at readyState or the exclusion
broadcastToRoomNoFilter(S, roomId, excludeWs, text) ==
    IF ~RoomsHas(S.rooms, roomId) THEN S
    ELSE LET S0 == [S EXCEPT !.calls = Append(@, [room |-> roomId,
                                 exclude |-> excludeWs, type |-> text.type])]
             m == RoomsGet(S.rooms, roomId).members
         IN  [S0 EXCEPT !.sent = @ \o [i \in 1..Len(m) |->
                                  [to |-> m[i], room |-> roomId, msg |-> text]]]

\* a variant that walks every room of the map instead of the one named
broadcastToRoomAllRooms(S, roomId, excludeWs, text) ==
    IF ~RoomsHas(S.rooms, roomId) THEN S
    ELSE LET S0 == [S EXCEPT !.calls = Append(@, [room |-> roomId,
                                 exclude |-> excludeWs, type |-> text.type])]
             RECURSIVE Walk(_, _)
             Walk(T, i) == IF i > Len(S.rooms) THEN T
                           ELSE Walk(BroadcastLoop(T, S.rooms[i].members, roomId,
                                                excludeWs, text), i + 1)
         IN  Walk(S0, 1)

broadcastToRoom(S, roomId, excludeWs, text) ==
    IF ~RoomsHas(S.rooms, roomId) THEN S
    ELSE LET S0 == [S EXCEPT !.calls = Append(@, [room |-> roomId,
                                 exclude |-> excludeWs, type |-> text.type])]
         IN  BroadcastLoop(S0, RoomsGet(S.rooms, roomId).members, roomId,
                           excludeWs, text)

(***************************************************************************)
(* joinRoom                                                                 *)
(***************************************************************************)
\* Array.from(room).filter(client !== ws && OPEN).map(client => clientId)
RoomClients(S, members, c) ==
    LET keep == SelectSeq(members, LAMBDA m : m # c /\ S.ws[m].readyState = "OPEN")
    IN  [i \in 1..Len(keep) |-> S.ws[keep[i]].clientId]

\* a variant that counts a room on every join
CreatedRoomsCountEveryJoin(S, roomId) ==
    IF RoomsHas(S.rooms, roomId)
    THEN [S EXCEPT !.stats.roomsCreated = @ + 1]
    ELSE [S EXCEPT !.rooms = RoomsSet(@, roomId,
                      [id |-> roomId, members |-> <<>>,
                       createdAt |-> S.now, emptySince |-> NoTime]),
                   !.stats.roomsCreated = @ + 1]

CreatedRooms(S, roomId) ==
    IF RoomsHas(S.rooms, roomId) THEN S
    ELSE [S EXCEPT !.rooms = RoomsSet(@, roomId,
                      [id |-> roomId, members |-> <<>>,
                       createdAt |-> S.now, emptySince |-> NoTime]),
                   !.stats.roomsCreated = @ + 1]

ConnectedMsg(S, roomId, clientId, size) ==
    Stringify([type |-> "connected", clientId |-> clientId, roomId |-> roomId,
               roomSize |-> size, timestamp |-> S.now], NoOpt)
UserJoinedMsg(S, clientId, size) ==
    Stringify([type |-> "user_joined", clientId |-> clientId,
               roomSize |-> size, timestamp |-> S.now], NoOpt)
RoomInfoMsg(S, clients, size) ==
    Stringify([type |-> "room_info", clients |-> clients,
               roomSize |-> size, timestamp |-> S.now], NoOpt)

\* a variant that sends the room_info snapshot before the acknowledgment
joinRoomInfoFirst(S, c, roomId, clientId) ==
    LET S1 == CreatedRooms(S, roomId)
        room == RoomsGet(S1.rooms, roomId)
        room2 == [room EXCEPT !.members = SetAdd(@, c)]
        S2 == [S1 EXCEPT !.rooms = RoomsSet(@, roomId, room2)]
        size == Len(room2.members)
        S3 == Send(S2, c, RoomInfoMsg(S2, RoomClients(S2, room2.members, c), size))
        S4 == broadcastToRoom(S3, roomId, c, UserJoinedMsg(S3, clientId, size))
    IN  Send(S4, c, ConnectedMsg(S4, roomId, clientId, size))

\* a variant that announces the join to the whole room, the joiner included,
\* with the room size before the join
joinRoomAnnounceAll(S, c, roomId, clientId) ==
    LET S1 == CreatedRooms(S, roomId)
        room == RoomsGet(S1.rooms, roomId)
        room2 == [room EXCEPT !.members = SetAdd(@, c)]
        S2 == [S1 EXCEPT !.rooms = RoomsSet(@, roomId, room2)]
        size == Len(room2.members)
        S3 == Send(S2, c, ConnectedMsg(S2, roomId, clientId, size))
        S4 == broadcastToRoom(S3, roomId, NoConn,
                              UserJoinedMsg(S3, clientId, Len(room.members)))
    IN  Send(S4, c, RoomInfoMsg(S4, RoomClients(S4, room2.members, c), size))

\* a variant that resumes a session: a member with the same client id is
\* replaced by the joining connection
joinRoomResume(S, c, roomId, clientId) ==
    LET S1 == CreatedRooms(S, roomId)
        room == RoomsGet(S1.rooms, roomId)
        kept == SelectSeq(room.members, LAMBDA m : S.ws[m].clientId # clientId)
        room2 == [room EXCEPT !.members = SetAdd(kept, c)]
        S2 == [S1 EXCEPT !.rooms = RoomsSet(@, roomId, room2)]
        size == Len(room2.members)
        S3 == Send(S2, c, ConnectedMsg(S2, roomId, clientId, size))
        S4 == IF Len(kept) = Len(room.members)
              THEN broadcastToRoom(S3, roomId, c, UserJoinedMsg(S3, clientId, size))
              ELSE S3
    IN  Send(S4, c, RoomInfoMsg(S4, RoomClients(S4, room2.members, c), size))

joinRoom(S, c, roomId, clientId) ==
    LET S1 == CreatedRooms(S, roomId)
        room == RoomsGet(S1.rooms, roomId)
        room2 == [room EXCEPT !.members = SetAdd(@, c)]
        S2 == [S1 EXCEPT !.rooms = RoomsSet(@, roomId, room2)]
        size == Len(room2.members)
        S3 == Send(S2, c, ConnectedMsg(S2, roomId, clientId, size))
        S4 == broadcastToRoom(S3, roomId, c, UserJoinedMsg(S3, clientId, size))
    IN  Send(S4, c, RoomInfoMsg(S4, RoomClients(S4, room2.members, c), size))

(***************************************************************************)
(* handleWebSocketConnection.  `query` is the parsed query string, `gen`    *)
(* the identifier generateClientId() returns when it is called.  A rejected *)
(* socket is closed with 1008 before any property or handler is set.        *)
(***************************************************************************)
WsClose(S, c, code) ==
    IF S.ws[c].readyState = "OPEN"
    THEN [S EXCEPT !.ws[c].readyState = "CLOSING", !.ws[c].closeCode = code]
    ELSE S

\* a variant without the length check
handleWebSocketConnectionAnyLength(S, c, query, gen) ==
    LET roomId == query.roomId
        clientId == IF query.clientId = Absent \/ query.clientId = ""
                    THEN gen ELSE query.clientId
    IN  IF roomId = Absent \/ roomId = "" THEN WsClose(S, c, PolicyViolation)
        ELSE LET S1 == [S EXCEPT !.ws[c].clientId = clientId,
                                 !.ws[c].roomId = roomId,
                                 !.ws[c].isAlive = "true"]
                 S2 == joinRoom(S1, c, roomId, clientId)
             IN  [S2 EXCEPT !.ws[c].registered = TRUE,
                            !.stats.totalConnections = @ + 1,
                            !.stats.currentConnections = @ + 1]

handleWebSocketConnection(S, c, query, gen) ==
    LET roomId == query.roomId
        clientId == IF query.clientId = Absent \/ query.clientId = ""
                    THEN gen ELSE query.clientId
    IN  IF roomId = Absent \/ roomId = "" THEN WsClose(S, c, PolicyViolation)
        ELSE IF Len(roomId) > MaxRoomIdLen THEN WsClose(S, c, PolicyViolation)
        ELSE LET S1 == [S EXCEPT !.ws[c].clientId = clientId,
                                 !.ws[c].roomId = roomId,
                                 !.ws[c].isAlive = "true"]
                 S2 == joinRoom(S1, c, roomId, clientId)
             IN  [S2 EXCEPT !.ws[c].registered = TRUE,
                            !.stats.totalConnections = @ + 1,
                            !.stats.currentConnections = @ + 1]

(***************************************************************************)
(* handleMessage and the router.                                            *)
(***************************************************************************)
validateMessage(message) ==
    /\ Truthy(message)
    /\ message.t = "object"
    /\ Field(message, "type").t = "string"
    /\ Len(Field(message, "type").v) > 0

\* a variant of the error reply that leaves out the detail
ErrorMsgNoDetail(S, what, opt) ==
    Stringify([type |-> "error", error |-> what, timestamp |-> S.now], NoOpt)

ErrorMsg(S, what, opt) ==
    Stringify([type |-> "error", error |-> what, timestamp |-> S.now], opt)

\* a variant that echoes the server's clock instead of the client's timestamp
handlePingEchoNow(S, c, message) ==
    Send(S, c, Stringify([type |-> "pong", timestamp |-> S.now,
                          original |-> JNum(S.now)], NoOpt))

handlePing(S, c, message) ==
    Send(S, c, Stringify([type |-> "pong", timestamp |-> S.now],
                         [original |-> Field(message, "timestamp")]))

handleSyncStart(S, c, message) ==
    broadcastToRoom(S, S.ws[c].roomId, c,
        Stringify([type |-> "sync_started", clientId |-> S.ws[c].clientId,
                   timestamp |-> S.now],
                  [playerId |-> Field(message, "playerId")]))

handleSyncStop(S, c, message) ==
    broadcastToRoom(S, S.ws[c].roomId, c,
        Stringify([type |-> "sync_stopped", clientId |-> S.ws[c].clientId,
                   timestamp |-> S.now], NoOpt))

\* a variant that makes the sender a member of every room of the map
handleControlMessageJoinAll(S, c, message) ==
    [S EXCEPT !.rooms = [i \in 1..Len(S.rooms) |->
                            [S.rooms[i] EXCEPT !.members = SetAdd(@, c)]]]

\* a variant that passes no exclusion, as handleChatMessage does
handleControlMessageToAll(S, c, message) ==
    broadcastToRoom(S, S.ws[c].roomId, NoConn,
        Stringify([type |-> Field(message, "type").v,
                   clientId |-> S.ws[c].clientId, timestamp |-> S.now],
                  [data |-> Field(message, "data")]))

handleControlMessage(S, c, message) ==
    broadcastToRoom(S, S.ws[c].roomId, c,
        Stringify([type |-> Field(message, "type").v,
                   clientId |-> S.ws[c].clientId, timestamp |-> S.now],
                  [data |-> Field(message, "data")]))

\* a variant that trusts a clientId found in the message body
handlePlayerStateBodyId(S, c, message) ==
    broadcastToRoom(S, S.ws[c].roomId, c,
        Stringify([type |-> "player_state_update",
                   clientId |-> IF Truthy(Field(message, "clientId"))
                                THEN Field(message, "clientId").v
                                ELSE S.ws[c].clientId,
                   timestamp |-> S.now],
                  [state |-> Field(message, "state"),
                   changes |-> Field(message, "changes")]))

handlePlayerState(S, c, message) ==
    broadcastToRoom(S, S.ws[c].roomId, c,
        Stringify([type |-> "player_state_update", clientId |-> S.ws[c].clientId,
                   timestamp |-> S.now],
                  [state |-> Field(message, "state"),
                   changes |-> Field(message, "changes")]))

handleSyncRequest(S, c, message) ==
    broadcastToRoom(S, S.ws[c].roomId, c,
        Stringify([type |-> "sync_request", clientId |-> S.ws[c].clientId,
                   timestamp |-> S.now], NoOpt))

handleSyncResponse(S, c, message) ==
    broadcastToRoom(S, S.ws[c].roomId, c,
        Stringify([type |-> "sync_response", clientId |-> S.ws[c].clientId,
                   timestamp |-> S.now],
                  [state |-> Field(message, "state")]))

\* message.username || clientId
handleChatMessage(S, c, message) ==
    broadcastToRoom(S, S.ws[c].roomId, NoConn,
        Stringify([type |-> "chat_message", clientId |-> S.ws[c].clientId,
                   timestamp |-> S.now],
                  [message |-> Field(message, "message"),
                   username |-> IF Truthy(Field(message, "username"))
                                THEN Field(message, "username")
                                ELSE JStr(S.ws[c].clientId)]))

\* a variant that counts a message only once it has passed validation
handleMessageCountValid(S, c, data) ==
    LET parsed == JsonParse(data)
    IN  IF ~parsed.ok
        THEN Send(S, c, ErrorMsg(S, "parse_failed", NoOpt))
        ELSE
        LET message == parsed.value
            S1 == [S EXCEPT !.stats.messagesProcessed = @ + 1]
        IN  IF ~validateMessage(message)
            THEN Send(S, c, ErrorMsg(S, "invalid_format", NoOpt))
            ELSE
            LET type == Field(message, "type").v
            IN  CASE type = "ping" -> handlePing(S1, c, message)
                  [] type = "sync_start" -> handleSyncStart(S1, c, message)
                  [] type = "sync_stop" -> handleSyncStop(S1, c, message)
                  [] type \in {"play", "pause", "seek", "volume_change"} ->
                         handleControlMessage(S1, c, message)
                  [] type = "player_state" -> handlePlayerState(S1, c, message)
                  [] type = "sync_request" -> handleSyncRequest(S1, c, message)
                  [] type = "sync_response" -> handleSyncResponse(S1, c, message)
                  [] type = "chat_message" -> handleChatMessage(S1, c, message)
                  [] OTHER -> Send(S1, c, ErrorMsg(S1, "unknown_type",
                                   [offending |-> Field(message, "type")]))

handleMessage(S, c, data) ==
    LET parsed == JsonParse(data)
    IN  IF ~parsed.ok
        THEN Send(S, c, ErrorMsg(S, "parse_failed", NoOpt))
        ELSE
        LET message == parsed.value
            S1 == [S EXCEPT !.stats.messagesProcessed = @ + 1]
        IN  IF ~validateMessage(message)
            THEN Send(S1, c, ErrorMsg(S1, "invalid_format", NoOpt))
            ELSE
            LET type == Field(message, "type").v
            IN  CASE type = "ping" -> handlePing(S1, c, message)
                  [] type = "sync_start" -> handleSyncStart(S1, c, message)
                  [] type = "sync_stop" -> handleSyncStop(S1, c, message)
                  [] type \in {"play", "pause", "seek", "volume_change"} ->
                         handleControlMessage(S1, c, message)
                  [] type = "player_state" -> handlePlayerState(S1, c, message)
                  [] type = "sync_request" -> handleSyncRequest(S1, c, message)
                  [] type = "sync_response" -> handleSyncResponse(S1, c, message)
                  [] type = "chat_message" -> handleChatMessage(S1, c, message)
                  [] OTHER -> Send(S1, c, ErrorMsg(S1, "unknown_type",
                                   [offending |-> Field(message, "type")]))

(***************************************************************************)
(* handleDisconnection                                                      *)
(***************************************************************************)
\* a variant of the notice that reports the room size before the removal
UserLeftMsgOldSize(S, clientId, size) ==
    Stringify([type |-> "user_left", clientId |-> clientId,
               roomSize |-> size + 1, timestamp |-> S.now], NoOpt)

UserLeftMsg(S, clientId, size) ==
    Stringify([type |-> "user_left", clientId |-> clientId,
               roomSize |-> size, timestamp |-> S.now], NoOpt)

\* a variant that drops a room as soon as its last member leaves
handleDisconnectionDeleteEmpty(S, c, code, reason) ==
    LET roomId == S.ws[c].roomId
    IN  IF roomId # Absent /\ roomId # "" /\ RoomsHas(S.rooms, roomId)
        THEN LET room == RoomsGet(S.rooms, roomId)
                 room2 == [room EXCEPT !.members = SetDelete(@, c)]
                 S1 == [S EXCEPT !.rooms = RoomsSet(@, roomId, room2)]
                 S2 == broadcastToRoom(S1, roomId, NoConn,
                          UserLeftMsg(S1, S.ws[c].clientId, Len(room2.members)))
                 S3 == IF Len(room2.members) = 0
                       THEN [S2 EXCEPT !.rooms = RoomsDelete(@, roomId)]
                       ELSE S2
             IN  [S3 EXCEPT !.stats.currentConnections = @ - 1]
        ELSE [S EXCEPT !.stats.currentConnections = @ - 1]

\* a variant that does not run the leave path for an abnormal closure
handleDisconnectionSkipAbnormal(S, c, code, reason) ==
    LET roomId == S.ws[c].roomId
    IN  IF code # AbnormalClosure /\ roomId # Absent /\ roomId # ""
           /\ RoomsHas(S.rooms, roomId)
        THEN LET room == RoomsGet(S.rooms, roomId)
                 room2 == [room EXCEPT !.members = SetDelete(@, c)]
                 S1 == [S EXCEPT !.rooms = RoomsSet(@, roomId, room2)]
                 S2 == broadcastToRoom(S1, roomId, NoConn,
                          UserLeftMsg(S1, S.ws[c].clientId, Len(room2.members)))
                 S3 == IF Len(room2.members) = 0
                       THEN [S2 EXCEPT !.rooms = RoomsSet(@, roomId,
                                [room2 EXCEPT !.emptySince = S.now])]
                       ELSE S2
             IN  [S3 EXCEPT !.stats.currentConnections = @ - 1]
        ELSE [S EXCEPT !.stats.currentConnections = @ - 1]

handleDisconnection(S, c, code, reason) ==
    LET roomId == S.ws[c].roomId
    IN  IF roomId # Absent /\ roomId # "" /\ RoomsHas(S.rooms, roomId)
        THEN LET room == RoomsGet(S.rooms, roomId)
                 room2 == [room EXCEPT !.members = SetDelete(@, c)]
                 S1 == [S EXCEPT !.rooms = RoomsSet(@, roomId, room2)]
                 S2 == broadcastToRoom(S1, roomId, NoConn,
                          UserLeftMsg(S1, S.ws[c].clientId, Len(room2.members)))
                 S3 == IF Len(room2.members) = 0
                       THEN [S2 EXCEPT !.rooms = RoomsSet(@, roomId,
                                [room2 EXCEPT !.emptySince = S.now])]
                       ELSE S2
             IN  [S3 EXCEPT !.stats.currentConnections = @ - 1]
        ELSE [S EXCEPT !.stats.currentConnections = @ - 1]

(***************************************************************************)
(* cleanupEmptyRooms, the heartbeat sweep, shutdown                         *)
(***************************************************************************)
\* GET /rooms: per room its clientCount, clientIds and createdAt
handleRoomsRequest(S) ==
    [id \in RoomIdsOf(S.rooms) |->
        LET clients == RoomsGet(S.rooms, id)
        IN  [clientCount |-> Len(clients.members),
             clientIds |-> [i \in 1..Len(clients.members) |->
                               S.ws[clients.members[i]].clientId],
             createdAt |-> clients.createdAt]]

\* GET /status: the counters and the time (port and uptime left out)
handleStatusRequest(S) ==
    [status |-> "running", stats |-> S.stats, timestamp |-> S.now]

\* a variant of the HTTP handler that counts a request as a connection
handleHttpRequestCounting(S, req) ==
    [state |-> [S EXCEPT !.stats.totalConnections = @ + 1],
     res |-> [code |-> 200, body |-> handleStatusRequest(S)]]

\* the HTTP handler: the state it leaves and the response it writes
handleHttpRequest(S, req) ==
    [state |-> S,
     res |-> IF req.method = "OPTIONS" THEN [code |-> 200, body |-> <<>>]
             ELSE IF req.pathname = "/status"
                  THEN [code |-> 200, body |-> handleStatusRequest(S)]
             ELSE IF req.pathname = "/rooms"
                  THEN [code |-> 200, body |-> handleRoomsRequest(S)]
             ELSE [code |-> 404, body |-> [error |-> "not_found"]]]

\* a variant of the sweep that does not wait for the grace period
cleanupEmptyRoomsNoGrace(S) ==
    [S EXCEPT !.rooms = SelectSeq(@, LAMBDA room :
        ~(Len(room.members) = 0 /\ room.emptySince # NoTime))]

\* a variant of the sweep that deletes nothing
cleanupEmptyRoomsKeepAll(S) == S

\* a variant of the sweep that goes by the empty-since marker alone
cleanupEmptyRoomsByMarker(S) ==
    [S EXCEPT !.rooms = SelectSeq(@, LAMBDA room :
        ~(/\ room.emptySince # NoTime
          /\ S.now - room.emptySince > GracePeriod))]

cleanupEmptyRooms(S) ==
    [S EXCEPT !.rooms = SelectSeq(@, LAMBDA room :
        ~(/\ Len(room.members) = 0
          /\ room.emptySince # NoTime
          /\ S.now - room.emptySince > GracePeriod))]

\* wss.clients: the sockets the library has accepted and not yet closed
WssClients(S) == {c \in Conns : S.ws[c].readyState \in {"OPEN", "CLOSING"}}

\* ws.terminate(): the socket is destroyed, 'close' follows
Terminate(w) == [w EXCEPT !.readyState = "CLOSING", !.terminated = TRUE]

\* a variant of the sweep that terminates whatever the flag says
heartbeatSweepTerminateAll(S) ==
    [S EXCEPT !.ws = [c \in Conns |->
        IF c \in WssClients(S) THEN Terminate(S.ws[c]) ELSE S.ws[c]]]

heartbeatSweep(S) ==
    [S EXCEPT !.ws = [c \in Conns |->
        IF c \notin WssClients(S) THEN S.ws[c]
        ELSE IF S.ws[c].isAlive = "false" THEN Terminate(S.ws[c])
        ELSE [S.ws[c] EXCEPT !.isAlive = "false"]]]

RECURSIVE ShutdownNotify(_, _)
ShutdownNotify(S, i) ==
    IF i > Len(S.rooms) THEN S
    ELSE ShutdownNotify(
             broadcastToRoom(S, S.rooms[i].id, NoConn,
                 Stringify([type |-> "server_shutdown", message |-> "shutting_down",
                            timestamp |-> S.now], NoOpt)),
             i + 1)

RECURSIVE CloseAll(_, _)
CloseAll(S, c) ==
    IF c > MaxConns THEN S
    ELSE CloseAll(IF c \in WssClients(S) THEN WsClose(S, c, GoingAway) ELSE S, c + 1)

\* a variant that closes the connections before it notifies the rooms
shutdownCloseFirst(S) == ShutdownNotify(CloseAll(S, 1), 1)

shutdown(S) == CloseAll(ShutdownNotify(S, 1), 1)

(***************************************************************************)
(* The browser client (background script and content script).  manager[c]  *)
(* is the BackgroundManager behind connection c: isConnected, isSyncing     *)
(* and currentPlayerId are its fields; written counts the frames it has    *)
(* given to its socket, read the frames of heard[c] its onmessage has      *)
(* handled, applied lists the commands controlPlayer has run on its        *)
(* player.  A handler yields the new client and the frames it sent.        *)
(***************************************************************************)
NewClient == [isConnected |-> FALSE, isSyncing |-> FALSE,
              currentPlayerId |-> Absent, written |-> 0, read |-> 0,
              applied |-> <<>>]

\* sendToServer: JSON.stringify(message) goes out while connected
sendToServer(K, message) ==
    IF K.isConnected
    THEN [client |-> K, out |-> <<[parse |-> "ok", value |-> JObj(message)]>>]
    ELSE [client |-> K, out |-> <<>>]

\* startSync throws before it changes anything when not connected
startSync(K, playerId) ==
    IF ~K.isConnected THEN [client |-> K, out |-> <<>>]
    ELSE sendToServer([K EXCEPT !.isSyncing = TRUE, !.currentPlayerId = playerId],
                      [type |-> JStr("sync_start"), playerId |-> JStr(playerId),
                       timestamp |-> JNum(7)])

\* detectChanges names a change of position 'timeupdate'
detectChanges(change) == IF change = "seek" THEN "timeupdate" ELSE change

\* onPlayerStateChange of the content script builds the playerStateChanged
\* message; the change list has the one change that happened
onPlayerStateChange(playerId, change) ==
    [action |-> "playerStateChanged", playerId |-> playerId,
     state |-> IF change = "pause" THEN "paused" ELSE "playing",
     changes |-> detectChanges(change)]

handlePlayerStateChange(K, message) ==
    IF ~K.isConnected \/ ~K.isSyncing THEN [client |-> K, out |-> <<>>]
    ELSE sendToServer(K, [type |-> JStr("player_state"),
                          playerId |-> JStr(message.playerId),
                          state |-> JStr(message.state),
                          changes |-> JStr(message.changes),
                          timestamp |-> JNum(7)])

\* controlActiveTabPlayer: the content script runs the command on the
\* player the client is syncing; without such a player nothing happens
controlActiveTabPlayer(K, command) ==
    IF K.currentPlayerId # Absent
    THEN [client |-> [K EXCEPT !.applied = Append(@, command)], out |-> <<>>]
    ELSE [client |-> K, out |-> <<>>]

\* the client's answer to sync_request: the state of its player
clientSyncRequest(K) ==
    IF K.currentPlayerId # Absent
    THEN sendToServer(K, [type |-> JStr("sync_response"),
                          playerId |-> JStr(K.currentPlayerId),
                          state |-> JStr("playing"), timestamp |-> JNum(7)])
    ELSE [client |-> K, out |-> <<>>]

\* the switch of handleServerMessage has no default: any other type,
\* user_joined and user_left included, leaves the client as it is
handleServerMessage(K, message) ==
    CASE message.type \in {"play", "pause", "seek"} ->
             controlActiveTabPlayer(K, message.type)
      [] message.type = "sync_request" -> clientSyncRequest(K)
      [] OTHER -> [client |-> K, out |-> <<>>]

\* a variant that hands over the newest frame first
DequeueNewest(q) == [frame |-> q[Len(q)], rest |-> SubSeq(q, 1, Len(q) - 1)]

\* the socket hands the frames to the 'message' handler oldest first
Dequeue(q) == [frame |-> Head(q), rest |-> Tail(q)]

(***************************************************************************)
(* WebSocketClient (scripts/websocket-client.js).  sockets lists the        *)
(* WebSocket objects connect() has created, ws is the index of the one the  *)
(* field this.ws holds (0: null); every socket keeps the handlers connect() *)
(* gave it.  timers counts the pending timeouts of handleClose; delays      *)
(* lists the delays handleClose has asked for since the last open.          *)
(***************************************************************************)
NewWebSocketClient ==
    [ws |-> 0, reconnectAttempts |-> 0, connectionState |-> "disconnected",
     sockets |-> <<>>, timers |-> 0, delays |-> <<>>]

\* connect(url, roomId, clientId): this.ws = new WebSocket(wsUrl)
clientConnect(W, roomId, clientId) ==
    [W EXCEPT !.sockets = Append(@, [readyState |-> "CONNECTING",
                                     roomId |-> roomId, clientId |-> clientId]),
              !.ws = Len(W.sockets) + 1]

\* ws.onopen
clientOnOpen(W) ==
    [W EXCEPT !.connectionState = "connected", !.reconnectAttempts = 0,
              !.delays = <<>>]

\* setTimeout(callback, this.reconnectInterval * this.reconnectAttempts)
handleClose(W, code) ==
    IF code # NormalClosure /\ W.reconnectAttempts < maxReconnectAttempts
    THEN [W EXCEPT !.timers = @ + 1,
                   !.delays = Append(@, reconnectInterval * W.reconnectAttempts)]
    ELSE W

\* ws.onclose
clientOnClose(W, code) ==
    handleClose([W EXCEPT !.connectionState = "disconnected"], code)

\* the callback of the timeout: it counts the attempt and opens no socket
reconnectTimer(W) ==
    [W EXCEPT !.timers = @ - 1, !.reconnectAttempts = @ + 1]

\* disconnect(): this.ws.close(1000, ...), this.ws = null
clientDisconnect(W) ==
    IF W.ws = 0 THEN [W EXCEPT !.connectionState = "disconnected"]
    ELSE [W EXCEPT !.sockets[W.ws].readyState =
                       IF @ \in {"CONNECTING", "OPEN"} THEN "CLOSING" ELSE @,
                   !.ws = 0,
                   !.connectionState = "disconnected"]

(***************************************************************************)
(* The content script (content.js) and its VideoDetector                    *)
(* (video-detector.js, the class that is in force: lines 213-454).          *)
(* video[i] is the paused flag of the i-th <video> element of the page;     *)
(* clock is Date.now().  players is the detector's list, currentPlayerId,   *)
(* syncEnabled, isMonitoring and lastSyncTime are the fields of             *)
(* VideoSyncContent, intervalId tells whether the detector's interval runs. *)
(* selected and rescanned are history: the element of the player that       *)
(* startSync found, and whether a scan has replaced the list since then.    *)
(***************************************************************************)
NumVideos == 2
MaxContentTicks == 3
MonitorInterval == 500
syncThreshold == 1000
StartTime == 1000

\* video-detector.js lines 221-246: id = video_${Date.now()}_${index}
scanVideoElements(C) ==
    [i \in 1..NumVideos |->
        [id |-> [stamp |-> C.clock, index |-> i - 1],
         element |-> i,
         paused |-> C.video[i]]]

getAllPlayers(C) ==
    [C EXCEPT !.players = scanVideoElements(C), !.rescanned = TRUE]

forceRescan(C) == getAllPlayers([C EXCEPT !.players = <<>>])

\* the constructor's init() scans the page once
NewContent ==
    [getAllPlayers([players |-> <<>>,
                    video |-> [i \in 1..NumVideos |-> TRUE],
                    clock |-> StartTime,
                    currentPlayerId |-> Absent,
                    syncEnabled |-> FALSE,
                    isMonitoring |-> FALSE,
                    intervalId |-> FALSE,
                    lastSyncTime |-> 0,
                    selected |-> 0,
                    rescanned |-> FALSE])
        EXCEPT !.rescanned = FALSE]

\* positions of the listed players with this id
getPlayerById(C, id) == {i \in DOMAIN C.players : C.players[i].id = id}

contentStartSync(C, playerId) ==
    LET found == getPlayerById(C, playerId)
        C1 == [C EXCEPT !.currentPlayerId = playerId,
                        !.syncEnabled = TRUE,
                        !.selected = 0,
                        !.rescanned = FALSE]
    IN  IF found = {} THEN C1
        ELSE [C1 EXCEPT !.intervalId = TRUE,
                        !.isMonitoring = TRUE,
                        !.selected =
                            C.players[CHOOSE i \in found :
                                        \A j \in found : i <= j].element]

contentStopSync(C) ==
    [C EXCEPT !.syncEnabled = FALSE,
              !.currentPlayerId = Absent,
              !.intervalId = FALSE,
              !.isMonitoring = FALSE,
              !.selected = 0,
              !.rescanned = FALSE]

hasStateChanged(player, C) == player.paused # C.video[player.element]

\* content.js lines 139-179: R = [content, reports]
contentOnPlayerStateChange(R, player) ==
    LET C == R.content
    IN  IF ~C.syncEnabled \/ player.id # C.currentPlayerId THEN R
        ELSE IF C.clock - C.lastSyncTime < syncThreshold THEN R
        ELSE [content |-> [C EXCEPT !.lastSyncTime = C.clock],
              reports |-> Append(R.reports,
                                 [playerId |-> player.id,
                                  element |-> player.element,
                                  paused |-> C.video[player.element]])]

\* one run of the interval callback of startMonitoring, from position i
RECURSIVE monitorFrom(_, _)
monitorFrom(R, i) ==
    IF i > Len(R.content.players) THEN R
    ELSE LET player == R.content.players[i]
         IN  IF hasStateChanged(player, R.content)
             THEN monitorFrom(
                    contentOnPlayerStateChange(
                        [R EXCEPT !.content.players[i].paused =
                                      R.content.video[player.element]],
                        [player EXCEPT !.paused =
                                      R.content.video[player.element]]),
                    i + 1)
             ELSE monitorFrom(R, i + 1)

monitorTick(C) == monitorFrom([content |-> C, reports |-> <<>>], 1)

(***************************************************************************)
(* BackgroundManager over its whole life (background/background.js).        *)
(* sockets lists the WebSocket objects connect() has created, wsClient is   *)
(* the index of the one the field this.wsClient holds (0: null); every      *)
(* socket keeps the handlers connect() gave it.  syncSocket remembers the   *)
(* socket that was current when startSync last ran (0: none, or stopped).   *)
(***************************************************************************)
NewBackground ==
    [wsClient |-> 0, isConnected |-> FALSE, isSyncing |-> FALSE,
     currentRoom |-> Absent, currentPlayerId |-> Absent,
     sockets |-> <<>>, syncSocket |-> 0]

\* connect(serverUrl, roomId): an empty roomId throws and is only logged;
\* otherwise this.wsClient = new WebSocket(wsUrl), nothing else is assigned
connect(B, roomId) ==
    IF roomId = "" THEN B
    ELSE [B EXCEPT !.sockets = Append(@, [readyState |-> "CONNECTING",
                                          roomId |-> roomId]),
                   !.wsClient = Len(B.sockets) + 1]

\* wsClient.onopen
managerOnOpen(B) == [B EXCEPT !.isConnected = TRUE]

\* wsClient.onclose
managerOnClose(B) == [B EXCEPT !.isConnected = FALSE]

\* disconnect()
disconnect(B) ==
    LET B1 == IF B.wsClient = 0 THEN B
              ELSE [B EXCEPT !.sockets[B.wsClient].readyState =
                                 IF @ \in {"CONNECTING", "OPEN"} THEN "CLOSING" ELSE @,
                             !.wsClient = 0]
    IN  [B1 EXCEPT !.isConnected = FALSE, !.isSyncing = FALSE,
                   !.currentRoom = Absent, !.currentPlayerId = Absent,
                   !.syncSocket = 0]

\* stopSync()
stopSync(K) ==
    sendToServer([K EXCEPT !.isSyncing = FALSE, !.currentPlayerId = Absent],
                 [type |-> JStr("sync_stop"), timestamp |-> JNum(7)])

\* the answer to the popup's getConnectionStatus
getConnectionStatus(B) ==
    [connected |-> B.isConnected, syncing |-> B.isSyncing,
     roomId |-> B.currentRoom, playerId |-> B.currentPlayerId]

\* sendToServer also tests this.wsClient, and the socket takes a frame only
\* while it is open: the socket the frames of `out` went out on, 0 if none
SentOn(B, out) ==
    IF out # <<>> /\ B.wsClient # 0 /\ B.sockets[B.wsClient].readyState = "OPEN"
    THEN B.wsClient ELSE 0

\* the sockets that are open and hand their frames to handleServerMessage
OpenSockets(B) == {s \in 1..Len(B.sockets) : B.sockets[s].readyState = "OPEN"}

\* the frames of one handler run that reached connection d, as the entries
\* of its log: c wrote the frame, n is the frame's position in what c wrote
Received(S, d, c, n) ==
    LET mine == SelectSeq(S.sent, LAMBDA e : e.to = d)
    IN  [i \in 1..Len(mine) |-> [from |-> c, n |-> n, msg |-> mine[i].msg]]

(***************************************************************************)
(* Inputs: the query strings and the inbound frames the model draws from.   *)
(***************************************************************************)
Queries(c) == [roomId : QueryRoomIds, clientId : QueryClientIds(c)]

RoutedTypes == {"sync_start", "sync_stop", "play", "pause", "seek",
                "volume_change", "player_state", "sync_request",
                "sync_response", "chat_message"}
KnownTypes == RoutedTypes \cup {"ping"}

Text(v) == [parse |-> "ok", value |-> v]
TypedFrame(type) ==
    Text(JObj([type |-> JStr(type), clientId |-> JStr("spoof"),
               timestamp |-> JNum(7)]))
Frames ==
    {[parse |-> "fail"], Text(JNull), Text(JNum(42)),
     Text(JObj([timestamp |-> JNum(7)])),
     Text(JObj([type |-> JNum(1)])),
     Text(JObj([type |-> JStr("")])),
     Text(JObj([type |-> JStr("chat_message"), message |-> JStr("hi"),
                username |-> JStr("bob")]))}
    \cup {TypedFrame(type) : type \in KnownTypes \cup {"bogus"}}
    \cup {Text(JObj([type |-> JStr("ping"), timestamp |-> JNum(9)]))}

\* the type of a frame that passes validation, Absent otherwise
FrameType(data) ==
    IF data.parse = "ok" /\ validateMessage(data.value)
    THEN Field(data.value, "type").v ELSE Absent

(***************************************************************************)
(* State.  ws[c] is the socket object of connection c: readyState is the    *)
(* library's, roomId, clientId and isAlive are the properties the server    *)
(* sets on it.  registered: the server has attached its handlers.           *)
(* terminated, errored, closeCode: why a CLOSING socket is closing.         *)
(* leftNotices counts the user_left broadcasts made for the connection.     *)
(* A closed socket is unreachable (no room, no wss.clients entry, no more   *)
(* events) and is kept as the one value ClosedWs.                           *)
(***************************************************************************)
NewWs == [readyState |-> "NONE", registered |-> FALSE, roomId |-> Absent,
          clientId |-> Absent, isAlive |-> "undefined",
          closeCode |-> 0, terminated |-> FALSE, errored |-> FALSE,
          leftNotices |-> 0]
ClosedWs == [NewWs EXCEPT !.readyState = "CLOSED"]

NoArg == [none |-> TRUE]

Init ==
    /\ rooms = <<>>
    /\ stats = [totalConnections |-> 0, currentConnections |-> 0,
                roomsCreated |-> 0, messagesProcessed |-> 0]
    /\ ws = [c \in Conns |-> NewWs]
    /\ now = 0
    /\ serverState = "running"
    /\ sent = <<>>
    /\ calls = <<>>
    /\ last = [op |-> "init", conn |-> NoConn, arg |-> NoArg]
    /\ manager = [c \in Conns |-> NewClient]
    /\ inbox = [c \in Conns |-> <<>>]
    /\ heard = [c \in Conns |-> <<>>]
    /\ wsClient = NewWebSocketClient
    /\ background = NewBackground
    /\ content = NewContent

St == [rooms |-> rooms, stats |-> stats, ws |-> ws, now |-> now,
       sent |-> <<>>, calls |-> <<>>]

\* the handler's result becomes the next state (T: the result, computed once)
Store(S, op, c, arg) ==
    \E T \in {S} :
        /\ rooms' = T.rooms
        /\ stats' = T.stats
        /\ ws' = T.ws
        /\ sent' = T.sent
        /\ calls' = T.calls
        /\ last' = [op |-> op, conn |-> c, arg |-> arg]

\* the number of user_left broadcasts a handler run has made
UserLeftCalls(S) == Len(SelectSeq(S.calls, LAMBDA k : k.type = "user_left"))

\* one run of handleDisconnection, with the notices it made counted
Disconnected(S, c, code, reason) ==
    LET T == handleDisconnection(S, c, code, reason)
    IN  [T EXCEPT !.ws[c].leftNotices = @ + UserLeftCalls(T)]

IsMember(rs, c) == \E i \in 1..Len(rs) : c \in Range(rs[i].members)

Running == serverState # "exited"

\* a variant in which a closing socket keeps handing frames to the handlers
ReceiverActiveWhileClosing(w) == w.readyState \in {"OPEN", "CLOSING"}

\* the receiver of the socket still hands frames to the handlers: the socket
\* is OPEN, or the server has started the closing handshake itself
ReceiverActive(w) ==
    \/ w.readyState = "OPEN"
    \/ /\ w.readyState = "CLOSING"
       /\ w.closeCode = GoingAway
       /\ ~w.terminated
       /\ ~w.errored

(***************************************************************************)
(* Actions: one per callback of the server.                                 *)
(***************************************************************************)
\* wss 'connection': the library has opened the socket
Connect(c, query, gen) ==
    /\ serverState = "running"
    /\ ws[c].readyState = "NONE"
    /\ \A d \in Conns : d < c => ws[d].readyState # "NONE"
    /\ Store(handleWebSocketConnection(
                 [St EXCEPT !.ws[c].readyState = "OPEN"], c, query, gen),
             "connect", c, query)
    /\ UNCHANGED <<now, serverState, manager, inbox, heard, extension>>

\* ws 'message'
Message(c, data) ==
    /\ Running
    /\ ws[c].registered
    /\ ReceiverActive(ws[c])
    /\ stats.messagesProcessed < MaxMsgs
    /\ Store(handleMessage(St, c, data), "message", c, data)
    /\ UNCHANGED <<now, serverState, manager, inbox, heard, extension>>

\* ws 'pong'
Pong(c) ==
    /\ Running
    /\ ws[c].registered
    /\ ws[c].readyState = "OPEN"
    /\ ws[c].isAlive = "false"
    /\ Store([St EXCEPT !.ws[c].isAlive = "true"], "pong", c, NoArg)
    /\ UNCHANGED <<now, serverState, manager, inbox, heard, extension>>

\* the peer starts the closing handshake: CLOSING until the socket ends
BeginClose(c) ==
    /\ Running
    /\ ws[c].registered
    /\ ws[c].readyState = "OPEN"
    /\ Store([St EXCEPT !.ws[c].readyState = "CLOSING"], "begin_close", c, NoArg)
    /\ UNCHANGED <<now, serverState, manager, inbox, heard, extension>>

\* ws 'error': the library starts closing the socket, then emits 'error'
Error(c) ==
    /\ Running
    /\ ws[c].registered
    /\ ReceiverActive(ws[c])
    /\ LET T == Disconnected(
                    [St EXCEPT !.ws[c].readyState = "CLOSING",
                               !.ws[c].errored = TRUE],
                    c, AbnormalClosure, "error")
       IN  Store(T, "error", c,
                 [code |-> AbnormalClosure, registered |-> TRUE,
                  wasMember |-> IsMember(rooms, c),
                  roomId |-> ws[c].roomId, clientId |-> ws[c].clientId,
                  terminated |-> ws[c].terminated, errored |-> ws[c].errored,
                  leftNotices |-> T.ws[c].leftNotices])
    /\ UNCHANGED <<now, serverState, manager, inbox, heard, extension>>

\* ws 'close': emitted once per socket, which is CLOSED from then on
Close(c, code) ==
    /\ Running
    /\ ws[c].readyState \in {"OPEN", "CLOSING"}
    /\ \E S1 \in {IF ws[c].registered
                   THEN Disconnected([St EXCEPT !.ws[c].readyState = "CLOSED"],
                                     c, code, "close")
                   ELSE [St EXCEPT !.ws[c].readyState = "CLOSED"]} :
           Store([S1 EXCEPT !.ws[c] = ClosedWs], "close", c,
                 [registered |-> ws[c].registered,
                  wasMember |-> IsMember(rooms, c),
                  roomId |-> ws[c].roomId, clientId |-> ws[c].clientId,
                  terminated |-> ws[c].terminated,
                  errored |-> ws[c].errored,
                  leftNotices |-> S1.ws[c].leftNotices])
    /\ UNCHANGED <<now, serverState, manager, inbox, heard, extension>>

\* the 30 s interval of startHeartbeat
Heartbeat ==
    /\ Running
    /\ Store(heartbeatSweep(St), "heartbeat", NoConn, NoArg)
    /\ UNCHANGED <<now, serverState, manager, inbox, heard, extension>>

\* the 60 s interval of init
Cleanup ==
    /\ Running
    /\ Store(cleanupEmptyRooms(St), "cleanup", NoConn, NoArg)
    /\ UNCHANGED <<now, serverState, manager, inbox, heard, extension>>

\* SIGINT / SIGTERM
Shutdown ==
    /\ serverState = "running"
    /\ Store(shutdown(St), "shutdown", NoConn, NoArg)
    /\ serverState' = "closing"
    /\ UNCHANGED <<now, manager, inbox, heard, extension>>

\* server.close's callback: every connection has ended; process.exit(0)
Exit ==
    /\ serverState = "closing"
    /\ \A c \in Conns : ws[c].readyState \in {"NONE", "CLOSED"}
    /\ serverState' = "exited"
    /\ last' = [op |-> "exit", conn |-> NoConn, arg |-> NoArg]
    /\ sent' = <<>>
    /\ calls' = <<>>
    /\ UNCHANGED <<rooms, stats, ws, now, manager, inbox, heard, extension>>

\* http 'request'
HttpRequest(req) ==
    /\ serverState = "running"
    /\ \E R \in {handleHttpRequest(St, req)} :
           Store(R.state, "http", NoConn, [req |-> req, res |-> R.res])
    /\ UNCHANGED <<now, serverState, manager, inbox, heard, extension>>

\* client onopen
ClientOpen(c) ==
    /\ ws[c].readyState = "OPEN"
    /\ ~manager[c].isConnected
    /\ manager' = [manager EXCEPT ![c].isConnected = TRUE]
    /\ last' = [op |-> "client_open", conn |-> c, arg |-> NoArg]
    /\ sent' = <<>>
    /\ calls' = <<>>
    /\ UNCHANGED <<rooms, stats, ws, now, serverState, inbox, heard, extension>>

\* client onclose
ClientClose(c) ==
    /\ ws[c].readyState = "CLOSED"
    /\ manager[c].isConnected
    /\ manager' = [manager EXCEPT ![c].isConnected = FALSE]
    /\ last' = [op |-> "client_close", conn |-> c, arg |-> NoArg]
    /\ sent' = <<>>
    /\ calls' = <<>>
    /\ UNCHANGED <<rooms, stats, ws, now, serverState, inbox, heard, extension>>

\* the frames a client handler sent are numbered and queued for the server
Wrote(c, R, op, arg) ==
    /\ manager' = [manager EXCEPT ![c] = [R.client EXCEPT !.written = @ + Len(R.out)]]
    /\ inbox' = [inbox EXCEPT ![c] = @ \o
                     [i \in 1..Len(R.out) |->
                         [parse |-> R.out[i].parse, value |-> R.out[i].value,
                          n |-> R.client.written + i]]]
    /\ last' = [op |-> op, conn |-> c, arg |-> arg]
    /\ sent' = <<>>
    /\ calls' = <<>>
    /\ UNCHANGED <<rooms, stats, ws, now, serverState, extension>>

\* the popup's startSync request
StartSync(c, playerId) ==
    /\ manager[c].isConnected
    /\ ~manager[c].isSyncing
    /\ manager[c].written < MaxFrames
    /\ Wrote(c, startSync(manager[c], playerId), "start_sync", [playerId |-> playerId])
    /\ UNCHANGED heard

\* the monitored player has changed: content script, then background
PlayerStateChanged(c, change) ==
    /\ manager[c].isConnected
    /\ manager[c].isSyncing
    /\ manager[c].written < MaxFrames
    /\ Wrote(c, handlePlayerStateChange(manager[c],
                     onPlayerStateChange(manager[c].currentPlayerId, change)),
             "player_state_changed", [change |-> change])
    /\ UNCHANGED heard

\* ws 'message' for the oldest frame the client has written
Handle(c) ==
    /\ Running
    /\ ws[c].registered
    /\ ReceiverActive(ws[c])
    /\ inbox[c] # <<>>
    /\ \E D \in {Dequeue(inbox[c])} :
       \E T \in {handleMessage(St, c, D.frame)} :
           /\ Store(T, "message", c, D.frame)
           /\ inbox' = [inbox EXCEPT ![c] = D.rest]
           /\ heard' = [d \in Conns |-> heard[d] \o Received(T, d, c, D.frame.n)]
    /\ UNCHANGED <<now, serverState, manager, extension>>

\* client onmessage for the next frame that has reached it
ServerMessage(d) ==
    /\ manager[d].read < Len(heard[d])
    /\ LET message == heard[d][manager[d].read + 1].msg
       IN  /\ Wrote(d, handleServerMessage([manager[d] EXCEPT !.read = @ + 1], message),
                    "server_message", [type |-> message.type])
    /\ UNCHANGED heard

\* a step of the extension: the server and its connections are left alone
ExtensionStep(op, arg) ==
    /\ last' = [op |-> op, conn |-> NoConn, arg |-> arg]
    /\ sent' = <<>>
    /\ calls' = <<>>
    /\ UNCHANGED <<rooms, stats, ws, now, serverState, manager, inbox, heard>>

\* the page calls WebSocketClient.connect
ClientConnect(roomId, clientId) ==
    /\ Len(wsClient.sockets) < MaxSockets
    /\ wsClient' = clientConnect(wsClient, roomId, clientId)
    /\ ExtensionStep("client_connect", [roomId |-> roomId, clientId |-> clientId])
    /\ UNCHANGED <<background, content>>

\* 'open' of socket s
SocketOpen(s) ==
    /\ s \in 1..Len(wsClient.sockets)
    /\ wsClient.sockets[s].readyState = "CONNECTING"
    /\ wsClient' = clientOnOpen([wsClient EXCEPT !.sockets[s].readyState = "OPEN"])
    /\ ExtensionStep("socket_open", [socket |-> s])
    /\ UNCHANGED <<background, content>>

\* 'close' of socket s; a socket that never opened closes abnormally
SocketClose(s, code) ==
    /\ s \in 1..Len(wsClient.sockets)
    /\ wsClient.sockets[s].readyState \in {"CONNECTING", "OPEN", "CLOSING"}
    /\ wsClient.sockets[s].readyState = "CONNECTING" => code = AbnormalClosure
    /\ wsClient' = clientOnClose([wsClient EXCEPT !.sockets[s].readyState = "CLOSED"],
                                 code)
    /\ ExtensionStep("socket_close", [socket |-> s, code |-> code])
    /\ UNCHANGED <<background, content>>

\* the page calls WebSocketClient.disconnect
ClientDisconnect ==
    /\ wsClient.ws # 0
    /\ wsClient' = clientDisconnect(wsClient)
    /\ ExtensionStep("client_disconnect", NoArg)
    /\ UNCHANGED <<background, content>>

\* a timeout of handleClose expires
TimerFires ==
    /\ wsClient.timers > 0
    /\ wsClient' = reconnectTimer(wsClient)
    /\ ExtensionStep("reconnect_timer", NoArg)
    /\ UNCHANGED <<background, content>>

\* popup: connect
PopupConnect(roomId) ==
    /\ Len(background.sockets) < MaxManagerSockets
    /\ background' = connect(background, roomId)
    /\ ExtensionStep("popup_connect", [roomId |-> roomId])
    /\ UNCHANGED <<wsClient, content>>

\* 'open' of socket s of the manager
ManagerSocketOpen(s) ==
    /\ s \in 1..Len(background.sockets)
    /\ background.sockets[s].readyState = "CONNECTING"
    /\ background' = managerOnOpen([background EXCEPT !.sockets[s].readyState = "OPEN"])
    /\ ExtensionStep("manager_open", [socket |-> s])
    /\ UNCHANGED <<wsClient, content>>

\* 'close' of socket s of the manager
ManagerSocketClose(s) ==
    /\ s \in 1..Len(background.sockets)
    /\ background.sockets[s].readyState \in {"CONNECTING", "OPEN", "CLOSING"}
    /\ background' = managerOnClose([background EXCEPT !.sockets[s].readyState = "CLOSED"])
    /\ ExtensionStep("manager_close", [socket |-> s])
    /\ UNCHANGED <<wsClient, content>>

\* popup: disconnect
PopupDisconnect ==
    /\ background' = disconnect(background)
    /\ ExtensionStep("popup_disconnect", NoArg)
    /\ UNCHANGED <<wsClient, content>>

\* popup: startSync (it throws, and changes nothing, when not connected)
PopupStartSync(playerId) ==
    /\ background.isConnected
    /\ \E R \in {startSync(background, playerId)} :
           /\ background' = [R.client EXCEPT !.syncSocket = background.wsClient]
           /\ ExtensionStep("popup_start_sync",
                            [sentOn |-> SentOn(background, R.out)])
    /\ UNCHANGED <<wsClient, content>>

\* popup: stopSync
PopupStopSync ==
    /\ \E R \in {stopSync(background)} :
           /\ background' = [R.client EXCEPT !.syncSocket = 0]
           /\ ExtensionStep("popup_stop_sync",
                            [sentOn |-> SentOn(background, R.out)])
    /\ UNCHANGED <<wsClient, content>>

\* content script: playerStateChanged
TabPlayerStateChanged(change) ==
    /\ \E R \in {handlePlayerStateChange(background,
                     onPlayerStateChange("player_1", change))} :
           /\ background' = R.client
           /\ ExtensionStep("tab_player_state",
                            [sentOn |-> SentOn(background, R.out)])
    /\ UNCHANGED <<wsClient, content>>

\* popup: getConnectionStatus
PopupGetConnectionStatus ==
    /\ ExtensionStep("get_connection_status", getConnectionStatus(background))
    /\ UNCHANGED <<wsClient, background, content>>

PlayerIds == {"player_1"}
PlayerChanges == {"play", "pause", "seek"}

\* time passes: a grace period's worth of minutes at a time
Tick ==
    /\ Running
    /\ now < MaxTicks * GracePeriod
    /\ now' = now + GracePeriod
    /\ last' = [op |-> "tick", conn |-> NoConn, arg |-> NoArg]
    /\ sent' = <<>>
    /\ calls' = <<>>
    /\ UNCHANGED <<rooms, stats, ws, serverState, manager, inbox, heard, extension>>

HttpRequests == [method : {"GET", "POST", "OPTIONS"},
                 pathname : {"/status", "/rooms", "/other"}]

CloseCodes == {1000, AbnormalClosure}

\* WebSocketClient: connects, opens, closes, disconnects and timeouts
ReconnectNext ==
    \/ ClientConnect("movie1", "A")
    \/ \E s \in 1..MaxSockets : SocketOpen(s)
    \/ \E s \in 1..MaxSockets, code \in CloseCodes : SocketClose(s, code)
    \/ ClientDisconnect
    \/ TimerFires

ReconnectSpec == Init /\ [][ReconnectNext]_vars

\* BackgroundManager: what the popup, the tab and its sockets do to it
ManagerRoomIds == {"movie1", ""}

(***************************************************************************)
(* Content script actions.                                                  *)
(***************************************************************************)
RescanKinds == {"rescanPlayers", "getVideoPlayers", "domMutation"}

\* rescanPlayers and the DOM observer call forceRescan, getVideoPlayers
\* calls getAllPlayers
ContentRescan(kind) ==
    /\ content' = IF kind = "getVideoPlayers" THEN getAllPlayers(content)
                  ELSE forceRescan(content)
    /\ ExtensionStep("content_rescan", [kind |-> kind])
    /\ UNCHANGED <<wsClient, background>>

\* the popup starts sync for a player of the list it was just given
ContentStartSync(i) ==
    /\ i \in DOMAIN content.players
    /\ content' = contentStartSync(content, content.players[i].id)
    /\ ExtensionStep("content_start_sync",
                     [playerId |-> content.players[i].id])
    /\ UNCHANGED <<wsClient, background>>

ContentStopSync ==
    /\ content' = contentStopSync(content)
    /\ ExtensionStep("content_stop_sync", [none |-> TRUE])
    /\ UNCHANGED <<wsClient, background>>

\* the viewer plays or pauses a video of the page
VideoToggle(i) ==
    /\ content' = [content EXCEPT !.video[i] = ~content.video[i]]
    /\ ExtensionStep("video_toggle", [element |-> i])
    /\ UNCHANGED <<wsClient, background>>

\* the detector's interval fires
MonitorTick ==
    /\ content.intervalId
    /\ \E R \in {monitorTick(content)} :
           /\ content' = R.content
           /\ ExtensionStep("monitor_tick", [reports |-> R.reports])
    /\ UNCHANGED <<wsClient, background>>

\* half a second passes
ContentClock ==
    /\ content.clock < StartTime + MaxContentTicks * MonitorInterval
    /\ content' = [content EXCEPT !.clock = content.clock + MonitorInterval]
    /\ ExtensionStep("content_clock", [none |-> TRUE])
    /\ UNCHANGED <<wsClient, background>>

ContentNext ==
    \/ \E kind \in RescanKinds : ContentRescan(kind)
    \/ \E i \in 1..NumVideos : ContentStartSync(i)
    \/ ContentStopSync
    \/ \E i \in 1..NumVideos : VideoToggle(i)
    \/ MonitorTick
    \/ ContentClock

ContentSpec == Init /\ [][ContentNext]_vars

ManagerNext ==
    \/ \E roomId \in ManagerRoomIds : PopupConnect(roomId)
    \/ \E s \in 1..MaxManagerSockets : ManagerSocketOpen(s)
    \/ \E s \in 1..MaxManagerSockets : ManagerSocketClose(s)
    \/ PopupDisconnect
    \/ \E playerId \in PlayerIds : PopupStartSync(playerId)
    \/ PopupStopSync
    \/ TabPlayerStateChanged("play")
    \/ PopupGetConnectionStatus

ManagerSpec == Init /\ [][ManagerNext]_vars

Next ==
    \/ \E c \in Conns : \E query \in Queries(c), gen \in GeneratedIds :
           Connect(c, query, gen)
    \/ \E c \in Conns, data \in Frames : Message(c, data)
    \/ \E c \in Conns : Pong(c)
    \/ \E c \in Conns : BeginClose(c)
    \/ \E c \in Conns : Error(c)
    \/ \E c \in Conns, code \in CloseCodes : Close(c, code)
    \/ Heartbeat
    \/ Cleanup
    \/ Shutdown
    \/ Exit
    \/ Tick
    \/ \E req \in HttpRequests : HttpRequest(req)
    \/ \E c \in Conns : ClientOpen(c)
    \/ \E c \in Conns : ClientClose(c)
    \/ \E c \in Conns, playerId \in PlayerIds : StartSync(c, playerId)
    \/ \E c \in Conns, change \in PlayerChanges : PlayerStateChanged(c, change)
    \/ \E c \in Conns : Handle(c)
    \/ \E d \in Conns : ServerMessage(d)
    \/ ReconnectNext
    \/ ManagerNext
    \/ ContentNext

Spec == Init /\ [][Next]_vars

(***************************************************************************)
(* Scenario specifications: the same actions, grouped by what they read.    *)
(* handleMessage and joinRoom read neither the clock nor the liveness       *)
(* flags; the sweeps read no message.                                       *)
(***************************************************************************)
RelayNext ==
    \/ \E c \in Conns : \E query \in Queries(c), gen \in GeneratedIds :
           Connect(c, query, gen)
    \/ \E c \in Conns, data \in Frames : Message(c, data)
    \/ \E c \in Conns : BeginClose(c)
    \/ \E c \in Conns : Error(c)
    \/ \E c \in Conns, code \in CloseCodes : Close(c, code)
    \/ Shutdown

RelaySpec == Init /\ [][RelayNext]_vars

RoomNext ==
    \/ \E c \in Conns : \E query \in Queries(c), gen \in GeneratedIds :
           Connect(c, query, gen)
    \/ \E c \in Conns : BeginClose(c)
    \/ \E c \in Conns : Error(c)
    \/ \E c \in Conns, code \in CloseCodes : Close(c, code)
    \/ Cleanup
    \/ Tick

RoomSpec == Init /\ [][RoomNext]_vars

\* the sweeps read no room id: one room and one rejected query are enough
LiveQueries(c) == {q \in Queries(c) : q.roomId \in {"movie1", ""}}

LiveNext ==
    \/ \E c \in Conns : \E query \in LiveQueries(c), gen \in GeneratedIds :
           Connect(c, query, gen)
    \/ \E c \in Conns : Pong(c)
    \/ \E c \in Conns : Error(c)
    \/ \E c \in Conns, code \in CloseCodes : Close(c, code)
    \/ Heartbeat

LiveSpec == Init /\ [][LiveNext]_vars

\* the library emits 'close' for every socket it has started to close
ClosingEnds(c) ==
    /\ ws[c].readyState = "CLOSING"
    /\ Close(c, AbnormalClosure)

\* setInterval keeps firing the sweep; a closing socket ends
LiveFairSpec ==
    /\ LiveSpec
    /\ WF_vars(Heartbeat)
    /\ \A c \in Conns : WF_vars(ClosingEnds(c))

\* the counters: joins to one room, frames, leaves, sweeps and the clock
CountNext ==
    \/ \E c \in Conns : \E query \in LiveQueries(c), gen \in GeneratedIds :
           Connect(c, query, gen)
    \/ \E c \in Conns, data \in Frames : Message(c, data)
    \/ \E c \in Conns : Error(c)
    \/ \E c \in Conns, code \in CloseCodes : Close(c, code)
    \/ Cleanup
    \/ Tick

CountSpec == Init /\ [][CountNext]_vars

\* shutdown: joins, leaves, errors, the signal and the exit
ShutdownNext ==
    \/ \E c \in Conns : \E query \in Queries(c), gen \in GeneratedIds :
           Connect(c, query, gen)
    \/ \E c \in Conns : BeginClose(c)
    \/ \E c \in Conns : Error(c)
    \/ \E c \in Conns, code \in CloseCodes : Close(c, code)
    \/ Shutdown
    \/ Exit

ShutdownSpec == Init /\ [][ShutdownNext]_vars

\* a closing socket ends; server.close calls back once the last one has
ShutdownFairSpec ==
    /\ ShutdownSpec
    /\ WF_vars(Exit)
    /\ \A c \in Conns : WF_vars(ClosingEnds(c))

\* the HTTP side channel next to joins and leaves
HttpNext ==
    \/ \E c \in Conns : \E query \in LiveQueries(c), gen \in GeneratedIds :
           Connect(c, query, gen)
    \/ \E c \in Conns : Error(c)
    \/ \E c \in Conns, code \in CloseCodes : Close(c, code)
    \/ Cleanup
    \/ Tick
    \/ \E req \in HttpRequests : HttpRequest(req)

HttpSpec == Init /\ [][HttpNext]_vars

\* membership: everything that runs while connections are in two rooms
MemberQueries(c) ==
    {q \in Queries(c) : /\ q.roomId \in ValidRoomIds
                        /\ q.clientId = IF c = 1 THEN "A" ELSE Absent}
MemberFrames == {TypedFrame("play")}
MemberRequests == {[method |-> "GET", pathname |-> "/rooms"]}

MemberNext ==
    \/ \E c \in Conns : \E query \in MemberQueries(c), gen \in GeneratedIds :
           Connect(c, query, gen)
    \/ \E c \in Conns, data \in MemberFrames : Message(c, data)
    \/ \E c \in Conns : Close(c, 1000)
    \/ Heartbeat
    \/ Cleanup
    \/ Tick
    \/ \E req \in MemberRequests : HttpRequest(req)

MemberSpec == Init /\ [][MemberNext]_vars

\* the clients of one room: they open, start syncing, report the changes
\* of their players, and handle what the server sends them
MirrorQueries(c) ==
    {q \in Queries(c) : /\ q.roomId = "movie1"
                        /\ q.clientId = IF c = 1 THEN "A" ELSE Absent}

\* the user operates the player of the first client; every client syncs
Reporters == {1}

MirrorNext ==
    \/ \E c \in Conns : \E query \in MirrorQueries(c), gen \in GeneratedIds :
           Connect(c, query, gen)
    \/ \E c \in Conns : ClientOpen(c)
    \/ \E c \in Conns, playerId \in PlayerIds : StartSync(c, playerId)
    \/ \E c \in Reporters, change \in PlayerChanges : PlayerStateChanged(c, change)
    \/ \E c \in Conns : Handle(c)
    \/ \E d \in Conns : ServerMessage(d)

MirrorSpec == Init /\ [][MirrorNext]_vars

\* the server handles every frame that has arrived, and so does the client
MirrorFairSpec ==
    /\ MirrorSpec
    /\ \A c \in Conns : WF_vars(Handle(c)) /\ WF_vars(ServerMessage(c))

\* the same clients, with connections that end while frames are queued:
\* the reporter and one of its listeners leave
Leavers == {1, 2}

OrderNext ==
    \/ MirrorNext
    \/ \E c \in Leavers : Close(c, 1000)
    \/ \E c \in Leavers : ClientClose(c)

OrderSpec == Init /\ [][OrderNext]_vars

(***************************************************************************)
(* Observations used by the properties.                                     *)
(***************************************************************************)
Members(r) == IF RoomsHas(rooms, r) THEN Range(RoomsGet(rooms, r).members) ELSE {}
IsOpen(c) == ws[c].readyState = "OPEN"
\* the frames the last handler delivered to connection c, in order
SentTo(c) == SelectSeq(sent, LAMBDA d : d.to = c)
\* the deliveries of the last handler that came from a broadcast to room r
BroadcastIn(r) == SelectSeq(sent, LAMBDA d : d.room = r)
Accepted == last.op = "connect" /\ ws[last.conn].registered
\* the room the last step's connection was registered in
OriginRoom ==
    CASE last.op = "connect" -> last.arg.roomId
      [] last.op = "message" -> ws[last.conn].roomId
      [] last.op \in {"close", "error"} -> last.arg.roomId
      [] OTHER -> Absent

(***************************************************************************)
(* C1  Cross-room isolation: every frame a broadcast delivers goes to a     *)
(* connection that is a member of the room of the broadcast and of no other *)
(* room, and a broadcast caused by a connection (its join, its frame, its   *)
(* leave) is a broadcast to that connection's own room.                     *)
(***************************************************************************)
C1_CrossRoomIsolation ==
    \A i \in 1..Len(sent) :
        sent[i].room # Absent =>
            /\ sent[i].to \in Members(sent[i].room)
            /\ ws[sent[i].to].roomId = sent[i].room
            /\ \A r \in RoomIdsOf(rooms) :
                   r # sent[i].room => sent[i].to \notin Members(r)
            /\ last.op \in {"connect", "message", "close", "error"} =>
                   sent[i].room = OriginRoom

\* a frame is relayed to a room-mate while an open member of another room
\* gets nothing
C1_Witness ==
    /\ last.op = "message"
    /\ \E i \in 1..Len(sent) : sent[i].room = OriginRoom
    /\ \E d \in Conns :
           /\ IsOpen(d)
           /\ ws[d].roomId # OriginRoom
           /\ d \in Members(ws[d].roomId)
           /\ SentTo(d) = <<>>

(***************************************************************************)
(* C2  Of the routed message types only chat_message is delivered to its    *)
(* sender: a sender that is an open member of its room receives its own     *)
(* chat_message exactly once, and the sender of any other routed type       *)
(* receives nothing.                                                        *)
(***************************************************************************)
C2_OnlyChatEchoes ==
    (last.op = "message" /\ FrameType(last.arg) \in RoutedTypes) =>
        IF FrameType(last.arg) = "chat_message"
        THEN (IsOpen(last.conn) /\ last.conn \in Members(OriginRoom)) =>
                 /\ Len(SentTo(last.conn)) = 1
                 /\ SentTo(last.conn)[1].msg.type = "chat_message"
                 /\ SentTo(last.conn)[1].room = OriginRoom
        ELSE SentTo(last.conn) = <<>>

C2_Witness ==
    /\ last.op = "message"
    /\ FrameType(last.arg) = "chat_message"
    /\ Len(SentTo(last.conn)) = 1
    /\ Len(sent) = 3

(***************************************************************************)
(* C3  broadcastToRoom(roomId, exclude, message) delivers the message       *)
(* exactly once to every member of the room that is OPEN when it runs,      *)
(* except the excluded connection, and to nobody else: N - 1 deliveries     *)
(* for N open members with the sender excluded, none when the sender is     *)
(* alone.  (shutdown closes the sockets after its broadcasts, so there the  *)
(* readyState that counts is the one before the step.)                      *)
(***************************************************************************)
C3_BroadcastStep ==
    \A k \in 1..Len(calls') :
        LET call == calls'[k]
            wasOpen(m) == IF last'.op = "shutdown"
                          THEN ws[m].readyState = "OPEN"
                          ELSE ws'[m].readyState = "OPEN"
            expected == {m \in Range(RoomsGet(rooms', call.room).members) :
                             m # call.exclude /\ wasOpen(m)}
            got == SelectSeq(sent', LAMBDA d : d.room = call.room)
        IN  /\ RoomsHas(rooms', call.room)
            /\ Len(got) = Cardinality(expected)
            /\ {got[i].to : i \in 1..Len(got)} = expected
            /\ \A i \in 1..Len(got) : got[i].msg.type = call.type

C3_BroadcastExactlyOnce == [][C3_BroadcastStep]_vars

\* three open members, the sender excluded: two deliveries
C3_Witness ==
    /\ last.op = "message"
    /\ Len(calls) = 1
    /\ calls[1].exclude = last.conn
    /\ Cardinality({m \in Members(OriginRoom) : IsOpen(m)}) = 3
    /\ Len(sent) = 2

(***************************************************************************)
(* C4  On an accepted join every member of the room that was there before   *)
(* and is OPEN receives exactly one frame, a user_joined with the joiner's  *)
(* client id and the room size after the join; the joiner receives no       *)
(* user_joined.                                                             *)
(***************************************************************************)
C4_UserJoined ==
    Accepted =>
        LET c == last.conn
            r == ws[c].roomId
        IN  /\ \A m \in Members(r) \ {c} :
                   IsOpen(m) =>
                       /\ Len(SentTo(m)) = 1
                       /\ SentTo(m)[1].msg.type = "user_joined"
                       /\ SentTo(m)[1].msg.clientId = ws[c].clientId
                       /\ SentTo(m)[1].msg.roomSize = Cardinality(Members(r))
            /\ \A i \in 1..Len(SentTo(c)) : SentTo(c)[i].msg.type # "user_joined"

C4_Witness ==
    /\ Accepted
    /\ Cardinality({m \in Members(ws[last.conn].roomId) \ {last.conn} : IsOpen(m)}) = 2
    /\ Len(SelectSeq(sent, LAMBDA d : d.msg.type = "user_joined")) = 2

(***************************************************************************)
(* C5  (as amended) When B joins a room whose only member is an open A, B   *)
(* receives its connected acknowledgment first and the room_info snapshot   *)
(* (clients = [A], roomSize = 2) second.                                    *)
(***************************************************************************)
JoinsOneOpenPeer ==
    /\ Accepted
    /\ Cardinality(Members(ws[last.conn].roomId)) = 2
    /\ \A m \in Members(ws[last.conn].roomId) : IsOpen(m)

PeerOf(c) == CHOOSE m \in Members(ws[c].roomId) : m # c

C5_ConnectedThenRoomInfo ==
    JoinsOneOpenPeer =>
        LET got == SentTo(last.conn)
        IN  /\ Len(got) = 2
            /\ got[1].msg.type = "connected"
            /\ got[1].msg.clientId = ws[last.conn].clientId
            /\ got[1].msg.roomSize = 2
            /\ got[2].msg.type = "room_info"
            /\ got[2].msg.clients = <<ws[PeerOf(last.conn)].clientId>>
            /\ got[2].msg.roomSize = 2

\* the claim as stated: room_info first, then connected
C5_RoomInfoThenConnected ==
    JoinsOneOpenPeer =>
        LET got == SentTo(last.conn)
        IN  /\ Len(got) = 2
            /\ got[1].msg.type = "room_info"
            /\ got[1].msg.clients = <<ws[PeerOf(last.conn)].clientId>>
            /\ got[1].msg.roomSize = 2
            /\ got[2].msg.type = "connected"

C5_Witness ==
    /\ JoinsOneOpenPeer
    /\ Len(SentTo(PeerOf(last.conn))) = 1
    /\ ws[PeerOf(last.conn)].clientId # ws[last.conn].clientId

(***************************************************************************)
(* C6  On a valid join the roomSize reported in connected, user_joined and  *)
(* room_info equals the number of members of the room whose transport is    *)
(* OPEN.  (The code reports room.size, which also counts a member whose     *)
(* socket is CLOSING and whose 'close' has not been handled yet.)           *)
(***************************************************************************)
C6_RoomSizeIsOpenCount ==
    Accepted =>
        \A i \in 1..Len(sent) :
            "roomSize" \in DOMAIN sent[i].msg =>
                sent[i].msg.roomSize =
                    Cardinality({m \in Members(ws[last.conn].roomId) : IsOpen(m)})

(***************************************************************************)
(* C7  handleDisconnection is idempotent: a second run for the same         *)
(* connection (the 'close' that follows an 'error') changes no room, no     *)
(* counter, and sends nothing.                                              *)
(***************************************************************************)
C7_SecondRunStep ==
    (last'.op = "close" /\ last'.arg.registered /\ last'.arg.errored) =>
        /\ rooms' = rooms
        /\ stats' = stats
        /\ sent' = <<>>

C7_DisconnectIdempotent == [][C7_SecondRunStep]_vars

(***************************************************************************)
(* C8  A joined connection that does not answer the liveness probes is      *)
(* terminated by the sweep and removed from its room, and exactly one       *)
(* user_left is broadcast for it: when the 'close' of a connection the      *)
(* sweep has terminated has been handled, handleDisconnection has           *)
(* broadcast user_left for that connection once.                            *)
(* (An 'error' between the probe and the sweep makes handleDisconnection    *)
(* run twice, and the second run broadcasts again: see C7.)                 *)
(***************************************************************************)
C8_ExactlyOneUserLeft ==
    (last.op = "close" /\ last.arg.registered /\ last.arg.terminated) =>
        /\ ~IsMember(rooms, last.conn)
        /\ last.arg.leftNotices = 1

(***************************************************************************)
(* The sweep's own path, without an 'error' in between: the silent member   *)
(* is terminated, leaves its room, and each remaining open member receives  *)
(* exactly one user_left.                                                   *)
(***************************************************************************)
\* a sweep terminates every socket whose flag is still false
C8_SweepStep ==
    last'.op = "heartbeat" =>
        \A c \in Conns :
            (ws[c].readyState \in {"OPEN", "CLOSING"} /\ ws[c].isAlive = "false") =>
                ws'[c].terminated /\ ws'[c].readyState = "CLOSING"

\* the 'close' of a member the sweep has terminated
C8_TerminatedLeaves ==
    (last.op = "close" /\ last.arg.registered /\ last.arg.terminated
        /\ last.arg.wasMember) =>
        /\ ~IsMember(rooms, last.conn)
        /\ last.arg.leftNotices = 1
        /\ Len(calls) = 1
        /\ \A m \in Members(last.arg.roomId) :
               IsOpen(m) =>
                   /\ Len(SentTo(m)) = 1
                   /\ SentTo(m)[1].msg.type = "user_left"
                   /\ SentTo(m)[1].msg.clientId = last.arg.clientId
        /\ \A i \in 1..Len(sent) : sent[i].to \in Members(last.arg.roomId)

C8_SilentMemberRemoved ==
    \A c \in Conns :
        (IsMember(rooms, c) /\ ws[c].isAlive = "false")
            ~> (~IsMember(rooms, c) \/ ws[c].isAlive = "true")

C8_HeartbeatRemoval ==
    /\ [][C8_SweepStep]_vars
    /\ []C8_TerminatedLeaves
    /\ C8_SilentMemberRemoved

C8_SweepPathReached ==
    /\ last.op = "close"
    /\ last.arg.terminated
    /\ last.arg.wasMember
    /\ last.arg.leftNotices = 1
    /\ Len(sent) = 2

(***************************************************************************)
(* C9  When the last member leaves a room the room stays in the registry,   *)
(* empty, with emptySince set to the time of the leave; no room leaves the  *)
(* registry unless it is empty and has been so for longer than the grace    *)
(* period; and a join to a room that is in the registry reuses it: its      *)
(* creation timestamp and roomsCreated are unchanged.                       *)
(***************************************************************************)
RoomOf(c) == ws[c].roomId

C9_LastLeaveStep ==
    \A c \in Conns :
        (/\ last'.op \in {"close", "error"}
         /\ last'.conn = c
         /\ RoomsHas(rooms, RoomOf(c))
         /\ RoomsGet(rooms, RoomOf(c)).members = <<c>>) =>
            /\ RoomsHas(rooms', RoomOf(c))
            /\ RoomsGet(rooms', RoomOf(c)).members = <<>>
            /\ RoomsGet(rooms', RoomOf(c)).emptySince = now'
            /\ RoomsGet(rooms', RoomOf(c)).createdAt =
                   RoomsGet(rooms, RoomOf(c)).createdAt

C9_DeleteStep ==
    \A i \in 1..Len(rooms) :
        ~RoomsHas(rooms', rooms[i].id) =>
            /\ rooms[i].members = <<>>
            /\ rooms[i].emptySince # NoTime
            /\ now - rooms[i].emptySince > GracePeriod

C9_RejoinStep ==
    \A c \in Conns :
        (/\ last'.op = "connect"
         /\ last'.conn = c
         /\ ws'[c].registered
         /\ RoomsHas(rooms, ws'[c].roomId)) =>
            /\ RoomsGet(rooms', ws'[c].roomId).createdAt =
                   RoomsGet(rooms, ws'[c].roomId).createdAt
            /\ stats'.roomsCreated = stats.roomsCreated
            /\ c \in Range(RoomsGet(rooms', ws'[c].roomId).members)

C9_EmptyRoomKept ==
    [][C9_LastLeaveStep /\ C9_DeleteStep /\ C9_RejoinStep]_vars

\* a room emptied a grace period ago, swept and not deleted, joined again:
\* same creation timestamp, one room ever created
C9_Witness ==
    /\ Accepted
    /\ now = GracePeriod
    /\ stats.roomsCreated = 1
    /\ stats.totalConnections = 2
    /\ RoomsGet(rooms, ws[last.conn].roomId).createdAt = 0
    /\ RoomsGet(rooms, ws[last.conn].roomId).members = <<last.conn>>

(***************************************************************************)
(* C10  A room that has at least one member has no emptySince timestamp.    *)
(* (joinRoom never clears the marker a previous leave has set.)             *)
(***************************************************************************)
C10_NoEmptySinceWhileOccupied ==
    \A i \in 1..Len(rooms) :
        Len(rooms[i].members) > 0 => rooms[i].emptySince = NoTime

(***************************************************************************)
(* C11  (as amended) Room-map invariant: a room in the registry has at      *)
(* least one member or carries the empty-since timestamp of the leave that  *)
(* emptied it; every connection that has joined and has not disconnected is *)
(* a member of a room in the registry; and a room leaves the registry only  *)
(* in a reclamation sweep, when it is empty and has been so for more than   *)
(* the grace period.  An empty room older than the grace period stays in    *)
(* the registry until the next sweep runs.                                  *)
(***************************************************************************)
Stale(room) ==
    /\ Len(room.members) = 0
    /\ room.emptySince # NoTime
    /\ now - room.emptySince > GracePeriod

C11_PresentRooms ==
    /\ \A i \in 1..Len(rooms) :
           \/ Len(rooms[i].members) > 0
           \/ rooms[i].emptySince # NoTime /\ rooms[i].emptySince <= now
    /\ \A c \in Conns :
           (ws[c].registered /\ ~ws[c].errored) =>
               /\ RoomsHas(rooms, ws[c].roomId)
               /\ c \in Members(ws[c].roomId)

C11_AbsentStep ==
    \A i \in 1..Len(rooms) :
        ~RoomsHas(rooms', rooms[i].id) =>
            /\ last'.op = "cleanup"
            /\ Stale(rooms[i])

C12_SweepStep ==
    last'.op = "cleanup" =>
        \A i \in 1..Len(rooms) :
            IF Stale(rooms[i])
            THEN /\ ~RoomsHas(rooms', rooms[i].id)
                 /\ rooms[i].id \notin DOMAIN handleRoomsRequest(St')
            ELSE /\ RoomsHas(rooms', rooms[i].id)
                 /\ RoomsGet(rooms', rooms[i].id) = rooms[i]
                 /\ rooms[i].id \in DOMAIN handleRoomsRequest(St')
                 /\ handleRoomsRequest(St')[rooms[i].id].clientCount =
                        Len(rooms[i].members)
                 /\ (rooms[i].members = <<>> /\ now - rooms[i].emptySince < GracePeriod)
                        => handleRoomsRequest(St')[rooms[i].id].clientCount = 0

C12_SweepReclaims == [][C12_SweepStep]_vars

\* a sweep at time 10 has deleted the room emptied at 0; the room emptied
\* after time 5 and an occupied room are still listed
C12_Witness ==
    /\ last.op = "cleanup"
    /\ stats.roomsCreated > Len(rooms)
    /\ \E id \in DOMAIN handleRoomsRequest(St) :
           /\ handleRoomsRequest(St)[id].clientCount = 0
           /\ now - RoomsGet(rooms, id).emptySince < GracePeriod

(***************************************************************************)
(* C13  A connection attempt whose room id is missing, empty or longer      *)
(* than 50 characters is closed with code 1008 and never registered: no     *)
(* room is created, no member added, nothing is sent, and no counter        *)
(* changes, at the rejection and at the later close of that transport.  A   *)
(* room id of 1 to 50 characters is accepted.                               *)
(***************************************************************************)
BadRoomId(roomId) ==
    roomId = Absent \/ roomId = "" \/ Len(roomId) > MaxRoomIdLen

C13_RejectStep ==
    \A c \in Conns :
        /\ (last'.op = "connect" /\ last'.conn = c /\ BadRoomId(last'.arg.roomId)) =>
               /\ ws'[c].readyState = "CLOSING"
               /\ ws'[c].closeCode = PolicyViolation
               /\ ~ws'[c].registered
               /\ rooms' = rooms
               /\ stats' = stats
               /\ sent' = <<>>
               /\ calls' = <<>>
        /\ (last'.op = "connect" /\ last'.conn = c /\ ~BadRoomId(last'.arg.roomId)) =>
               /\ ws'[c].registered
               /\ ws'[c].readyState = "OPEN"
               /\ c \in Range(RoomsGet(rooms', last'.arg.roomId).members)
        /\ ws[c].closeCode = PolicyViolation =>
               /\ ~ws[c].registered
               /\ ~IsMember(rooms, c)
               /\ last'.conn = c =>
                      /\ last'.op = "close"
                      /\ rooms' = rooms
                      /\ stats' = stats
                      /\ sent' = <<>>
                      /\ calls' = <<>>

C13_RejectedUnregistered == [][C13_RejectStep]_vars

\* a 51-character room id is rejected while a 50-character room is in use
C13_Witness ==
    /\ last.op = "connect"
    /\ last.arg.roomId = Room51
    /\ ws[last.conn].closeCode = PolicyViolation
    /\ RoomsHas(rooms, Room50)
    /\ stats.totalConnections = 1

(***************************************************************************)
(* C14  A frame that is no JSON, or that parses but fails validation,       *)
(* yields exactly one private error frame to its (open) sender, reaches no  *)
(* other connection and no room, and leaves every socket and every room as  *)
(* they were: the sender stays open and a member.                           *)
(***************************************************************************)
C14_BadFrameStep ==
    \A c \in Conns :
        (/\ last'.op = "message"
         /\ last'.conn = c
         /\ FrameType(last'.arg) = Absent
         /\ IsOpen(c)) =>
            /\ Len(sent') = 1
            /\ sent'[1].to = c
            /\ sent'[1].room = Absent
            /\ sent'[1].msg.type = "error"
            /\ sent'[1].msg.error =
                   IF last'.arg.parse = "fail" THEN "parse_failed" ELSE "invalid_format"
            /\ calls' = <<>>
            /\ ws' = ws
            /\ rooms' = rooms
            /\ c \in Members(ws[c].roomId)

C14_BadFramePrivateError == [][C14_BadFrameStep]_vars

\* a frame whose type is a number, sent in a room with another open member
C14_Witness ==
    /\ last.op = "message"
    /\ last.arg = Text(JObj([type |-> JNum(1)]))
    /\ \E d \in Members(OriginRoom) : d # last.conn /\ IsOpen(d)
    /\ Len(sent) = 1
    /\ IsOpen(last.conn)

(***************************************************************************)
(* C15  A valid message whose type is not a known type yields exactly one   *)
(* private error frame that names the type, to its (open) sender only;      *)
(* nothing is broadcast, and the connection stays open, registered and a    *)
(* member.                                                                  *)
(***************************************************************************)
C15_UnknownTypeStep ==
    \A c \in Conns :
        (/\ last'.op = "message"
         /\ last'.conn = c
         /\ FrameType(last'.arg) \notin KnownTypes \cup {Absent}
         /\ IsOpen(c)) =>
            /\ Len(sent') = 1
            /\ sent'[1].to = c
            /\ sent'[1].room = Absent
            /\ sent'[1].msg.type = "error"
            /\ sent'[1].msg.error = "unknown_type"
            /\ "offending" \in DOMAIN sent'[1].msg
            /\ sent'[1].msg.offending = JStr(FrameType(last'.arg))
            /\ calls' = <<>>
            /\ ws' = ws
            /\ rooms' = rooms

C15_UnknownTypePrivateError == [][C15_UnknownTypeStep]_vars

C15_Witness ==
    /\ last.op = "message"
    /\ FrameType(last.arg) = "bogus"
    /\ \E d \in Members(OriginRoom) : d # last.conn /\ IsOpen(d)
    /\ Len(sent) = 1
    /\ sent[1].msg.offending = JStr("bogus")

(***************************************************************************)
(* C16  A ping {type: "ping", timestamp: T} from a joined (open) connection *)
(* yields exactly one pong, sent to that connection only, whose original    *)
(* field is T; no other connection receives anything.                       *)
(***************************************************************************)
C16_PingStep ==
    \A c \in Conns :
        (/\ last'.op = "message"
         /\ last'.conn = c
         /\ FrameType(last'.arg) = "ping"
         /\ IsOpen(c)) =>
            /\ Len(sent') = 1
            /\ sent'[1].to = c
            /\ sent'[1].room = Absent
            /\ sent'[1].msg.type = "pong"
            /\ sent'[1].msg.original = Field(last'.arg.value, "timestamp")
            /\ sent'[1].msg.timestamp = now
            /\ calls' = <<>>

C16_PingPong == [][C16_PingStep]_vars

C16_Witness ==
    /\ last.op = "message"
    /\ FrameType(last.arg) = "ping"
    /\ Field(last.arg.value, "timestamp") = JNum(9)
    /\ \E d \in Members(OriginRoom) : d # last.conn /\ IsOpen(d)
    /\ Len(sent) = 1
    /\ sent[1].msg.original = JNum(9)

(***************************************************************************)
(* C17  messagesProcessed grows by exactly one for each inbound frame that  *)
(* parses as JSON, whether or not it then passes validation or has a known  *)
(* type (the increment comes before the dispatch), and does not change for  *)
(* a frame that fails to parse; no other step changes it.                   *)
(***************************************************************************)
C17_CountStep ==
    stats'.messagesProcessed =
        IF last'.op = "message" /\ last'.arg.parse = "ok"
        THEN stats.messagesProcessed + 1
        ELSE stats.messagesProcessed

C17_MessagesProcessed == [][C17_CountStep]_vars

\* a frame that parses and fails validation has been counted
C17_Witness ==
    /\ last.op = "message"
    /\ last.arg = Text(JNum(42))
    /\ stats.messagesProcessed = 1

(***************************************************************************)
(* C18  currentConnections is a live gauge: in every reachable state it     *)
(* equals the number of connections that are members of a room (accepted    *)
(* and not yet disconnected), and it is never negative.                     *)
(* (An 'error' followed by the 'close' of the same socket decrements it     *)
(* twice: see C7.)                                                          *)
(***************************************************************************)
C18_GaugeIsLive ==
    /\ stats.currentConnections = Cardinality({c \in Conns : IsMember(rooms, c)})
    /\ stats.currentConnections >= 0

(***************************************************************************)
(* C19  totalConnections, roomsCreated and messagesProcessed never          *)
(* decrease; totalConnections grows by one exactly on an accepted           *)
(* connection; roomsCreated grows by one exactly when a join creates a room *)
(* that is absent from the registry, a room deleted by a sweep included.    *)
(***************************************************************************)
C19_CounterStep ==
    LET accepted == last'.op = "connect" /\ ws'[last'.conn].registered
    IN  /\ stats'.totalConnections =
               stats.totalConnections + (IF accepted THEN 1 ELSE 0)
        /\ stats'.roomsCreated =
               stats.roomsCreated +
                   (IF accepted /\ ~RoomsHas(rooms, last'.arg.roomId) THEN 1 ELSE 0)
        /\ stats'.messagesProcessed >= stats.messagesProcessed

C19_MonotoneCounters == [][C19_CounterStep]_vars

\* a join has created again the room a sweep had deleted, after a frame
\* has been counted
C19_Witness ==
    /\ Accepted
    /\ stats.roomsCreated = 2
    /\ Len(rooms) = 1
    /\ stats.totalConnections = 2
    /\ stats.messagesProcessed = 1

(***************************************************************************)
(* C20  A recipient that cannot be reached during a broadcast (a member     *)
(* whose transport is not OPEN) is skipped: every other open member of the  *)
(* room still receives the frame, each exactly once (nothing is retried or  *)
(* repeated), and the sender receives no error frame for it.                *)
(***************************************************************************)
Unreachable(r) == {m \in Members(r) : ~IsOpen(m)}

C20_FireAndForget ==
    (/\ last.op = "message"
     /\ FrameType(last.arg) \in RoutedTypes
     /\ Unreachable(OriginRoom) # {}) =>
        /\ \A m \in Members(OriginRoom) :
               IF IsOpen(m) /\ (m # last.conn \/ FrameType(last.arg) = "chat_message")
               THEN Len(SentTo(m)) = 1
               ELSE SentTo(m) = <<>>
        /\ \A i \in 1..Len(sent) :
               /\ sent[i].msg.type # "error"
               /\ sent[i].room = OriginRoom
        /\ Len(calls) = 1

\* the member that cannot be reached comes before an open recipient in the
\* room's iteration order, and that recipient has the frame
C20_Witness ==
    /\ last.op = "message"
    /\ FrameType(last.arg) \in RoutedTypes
    /\ IsOpen(last.conn)
    /\ LET m == RoomsGet(rooms, OriginRoom).members
       IN  \E i, j \in 1..Len(m) :
               /\ i < j
               /\ ~IsOpen(m[i])
               /\ IsOpen(m[j])
               /\ m[j] # last.conn
               /\ Len(SentTo(m[j])) = 1

(***************************************************************************)
(* C21  On the shutdown signal every open member of every room receives     *)
(* one server_shutdown notice, sent while its socket is still open; every   *)
(* open connection is then closed with code 1001; the listening endpoint    *)
(* is closed after that (no connection is accepted any more), and the       *)
(* process exits once every connection has closed, which eventually         *)
(* happens.                                                                 *)
(***************************************************************************)
C21_ShutdownStep ==
    last'.op = "shutdown" =>
        /\ \A c \in Conns :
               /\ (IsOpen(c) /\ IsMember(rooms, c)) =>
                      /\ Len(SelectSeq(sent', LAMBDA d : d.to = c)) = 1
                      /\ \E i \in 1..Len(sent') :
                             /\ sent'[i].to = c
                             /\ sent'[i].msg.type = "server_shutdown"
                             /\ sent'[i].room = ws[c].roomId
               /\ IsOpen(c) =>
                      /\ ws'[c].readyState = "CLOSING"
                      /\ ws'[c].closeCode = GoingAway
               /\ ws'[c].readyState # "OPEN"
        /\ \A i \in 1..Len(sent') : IsOpen(sent'[i].to)
        /\ serverState' = "closing"

C21_NoAcceptStep ==
    /\ serverState # "running" => last'.op # "connect"
    /\ serverState' = "exited" =>
           \A c \in Conns : ws'[c].readyState \in {"NONE", "CLOSED"}

C21_Shutdown ==
    /\ [][C21_ShutdownStep /\ C21_NoAcceptStep]_vars
    /\ (serverState = "closing") ~> (serverState = "exited")

\* the signal arrives with open members in two rooms
C21_Witness ==
    /\ last.op = "shutdown"
    /\ Len(calls) = 2
    /\ Len(sent) = 3
    /\ \A c \in Conns : ws[c].closeCode = GoingAway

(***************************************************************************)
(* C23  The type of a relayed frame follows the routing table, and its      *)
(* clientId is the identifier the server fixed for the sending connection   *)
(* at establishment, whatever clientId the message body carries; that       *)
(* identifier never changes while the connection is registered.             *)
(***************************************************************************)
RelayedType(type) ==
    CASE type = "sync_start" -> "sync_started"
      [] type = "sync_stop" -> "sync_stopped"
      [] type = "player_state" -> "player_state_update"
      [] OTHER -> type

C23_RoutingStep ==
    /\ (last'.op = "message" /\ FrameType(last'.arg) \in RoutedTypes) =>
           /\ Len(calls') = 1
           /\ calls'[1].type = RelayedType(FrameType(last'.arg))
           /\ calls'[1].room = ws[last'.conn].roomId
           /\ \A i \in 1..Len(sent') :
                  /\ sent'[i].msg.type = RelayedType(FrameType(last'.arg))
                  /\ sent'[i].msg.clientId = ws[last'.conn].clientId
    /\ \A c \in Conns :
           (ws[c].registered /\ ws'[c].registered) =>
               ws'[c].clientId = ws[c].clientId

C23_RoutingTable == [][C23_RoutingStep]_vars

\* a player_state whose body names another clientId has been relayed
C23_Witness ==
    /\ last.op = "message"
    /\ FrameType(last.arg) = "player_state"
    /\ Field(last.arg.value, "clientId") = JStr("spoof")
    /\ Len(sent) = 2
    /\ sent[1].msg.type = "player_state_update"
    /\ sent[1].msg.clientId = ws[last.conn].clientId

(***************************************************************************)
(* C24  A transport error on a joined connection runs the leave path with   *)
(* code 1006, with the outcome an ordinary close of that connection would   *)
(* have: the connection is removed from its room and the remaining open     *)
(* members are notified; no other socket changes and the server keeps       *)
(* running.                                                                 *)
(***************************************************************************)
C24_ErrorStep ==
    \A c \in Conns :
        (last'.op = "error" /\ last'.conn = c /\ IsMember(rooms, c)) =>
            LET asClose == handleDisconnection(
                               [St EXCEPT !.ws[c].readyState = "CLOSED"],
                               c, 1000, "close")
            IN  /\ last'.arg.code = AbnormalClosure
                /\ ~IsMember(rooms', c)
                /\ rooms' = asClose.rooms
                /\ stats' = asClose.stats
                /\ sent' = asClose.sent
                /\ \A m \in Members(ws[c].roomId) \ {c} :
                       IsOpen(m) =>
                           \E i \in 1..Len(sent') :
                               /\ sent'[i].to = m
                               /\ sent'[i].msg.type = "user_left"
                               /\ sent'[i].msg.clientId = ws[c].clientId
                /\ \A d \in Conns \ {c} : ws'[d] = ws[d]
                /\ serverState' = serverState

C24_ErrorIsAbnormalClose == [][C24_ErrorStep]_vars

C24_Witness ==
    /\ last.op = "error"
    /\ last.arg.wasMember
    /\ last.arg.code = AbnormalClosure
    /\ Len(sent) = 2
    /\ serverState = "running"

(***************************************************************************)
(* C25  When a member leaves its room, every remaining open member          *)
(* receives one user_left frame with the leaver's client id and the room    *)
(* size after the removal, and the leaver receives nothing.                 *)
(***************************************************************************)
C25_UserLeft ==
    (last.op \in {"close", "error"} /\ last.arg.registered /\ last.arg.wasMember) =>
        /\ last.conn \notin Members(last.arg.roomId)
        /\ \A m \in Members(last.arg.roomId) :
               IsOpen(m) =>
                   /\ Len(SentTo(m)) = 1
                   /\ SentTo(m)[1].msg.type = "user_left"
                   /\ SentTo(m)[1].msg.clientId = last.arg.clientId
                   /\ SentTo(m)[1].msg.roomSize =
                          Cardinality(Members(last.arg.roomId))
        /\ SentTo(last.conn) = <<>>
        /\ \A i \in 1..Len(sent) : sent[i].msg.type = "user_left"

\* one of three members has closed: two notices, roomSize 2
C25_Witness ==
    /\ last.op = "close"
    /\ last.arg.wasMember
    /\ Len(sent) = 2
    /\ sent[1].msg.roomSize = 2
    /\ sent[2].msg.clientId = last.arg.clientId

(***************************************************************************)
(* C26  A connection is a member of at most one room, the one named at its  *)
(* establishment.  Membership changes only when the connection itself is    *)
(* accepted (it is added to that room) or disconnects (it is removed): no   *)
(* frame, sweep or HTTP request changes it, and a connection that has been  *)
(* removed is never added again.                                            *)
(***************************************************************************)
MembersIn(rs, r) == IF RoomsHas(rs, r) THEN Range(RoomsGet(rs, r).members) ELSE {}

C26_OneRoomStep ==
    \A c \in Conns :
        /\ Cardinality({r \in RoomIdsOf(rooms') : c \in MembersIn(rooms', r)}) <= 1
        /\ \A r \in RoomIdsOf(rooms') :
               c \in MembersIn(rooms', r) => ws'[c].registered /\ ws'[c].roomId = r
        /\ \A r \in RoomIdsOf(rooms) \cup RoomIdsOf(rooms') :
               /\ (c \notin MembersIn(rooms, r) /\ c \in MembersIn(rooms', r)) =>
                      /\ last'.op = "connect"
                      /\ last'.conn = c
                      /\ last'.arg.roomId = r
               /\ (c \in MembersIn(rooms, r) /\ c \notin MembersIn(rooms', r)) =>
                      /\ last'.op \in {"close", "error"}
                      /\ last'.conn = c
        /\ (ws[c].readyState # "NONE" /\ ~IsMember(rooms, c)) => ~IsMember(rooms', c)
        /\ (ws[c].registered /\ ws'[c].registered) => ws'[c].roomId = ws[c].roomId

C26_OneRoomForLife == [][C26_OneRoomStep]_vars

\* a frame is handled while both rooms have members and a connection that
\* was a member has been removed
C26_Witness ==
    /\ last.op = "message"
    /\ Len(rooms) = 2
    /\ \A i \in 1..Len(rooms) : rooms[i].members # <<>>
    /\ \E c \in Conns :
           ws[c].readyState = "CLOSED" /\ ~IsMember(rooms, c)

(***************************************************************************)
(* C28  A join that carries the room id and client id of an earlier         *)
(* connection is an ordinary join: the existing open members receive        *)
(* user_joined, and when the earlier connection is still a member both      *)
(* connections are members and both count in the room size; the earlier     *)
(* connection is left as it was.                                            *)
(***************************************************************************)
SameIdPeers(c) ==
    {d \in Members(ws[c].roomId) \ {c} : ws[d].clientId = ws[c].clientId}

C28_RejoinStep ==
    \A c \in Conns :
        (/\ last'.op = "connect"
         /\ last'.conn = c
         /\ ws'[c].registered
         /\ \E d \in MembersIn(rooms, last'.arg.roomId) :
                ws[d].clientId = ws'[c].clientId) =>
            LET r == last'.arg.roomId
                size == Cardinality(MembersIn(rooms, r)) + 1
            IN  /\ MembersIn(rooms', r) = MembersIn(rooms, r) \cup {c}
                /\ Cardinality(MembersIn(rooms', r)) = size
                /\ \A d \in Conns \ {c} : ws'[d] = ws[d]
                /\ \A d \in MembersIn(rooms, r) :
                       IsOpen(d) =>
                           \E i \in 1..Len(sent') :
                               /\ sent'[i].to = d
                               /\ sent'[i].msg.type = "user_joined"
                               /\ sent'[i].msg.clientId = ws'[c].clientId
                               /\ sent'[i].msg.roomSize = size
                /\ \E i \in 1..Len(sent') :
                       /\ sent'[i].to = c
                       /\ sent'[i].msg.type = "connected"
                       /\ sent'[i].msg.roomSize = size

C28_NoSessionResumption == [][C28_RejoinStep]_vars

\* a second connection has joined with the client id of an open member
C28_Witness ==
    /\ Accepted
    /\ \E d \in SameIdPeers(last.conn) :
           /\ IsOpen(d)
           /\ Len(SentTo(d)) = 1
           /\ SentTo(d)[1].msg.type = "user_joined"
    /\ Cardinality(Members(ws[last.conn].roomId)) = 2

(***************************************************************************)
(* C29  The liveness monitor terminates a connection only at a sweep that   *)
(* finds its flag still false, that is, when the probe of the previous      *)
(* sweep was not acknowledged; a connection whose flag is true at a sweep   *)
(* is probed (its flag is cleared) and not terminated, and an               *)
(* acknowledgment sets the flag true again.                                 *)
(***************************************************************************)
C29_LivenessStep ==
    \A c \in Conns :
        /\ (ws'[c].terminated /\ ~ws[c].terminated) =>
               /\ last'.op = "heartbeat"
               /\ ws[c].isAlive = "false"
        /\ (last'.op = "heartbeat" /\ ws[c].readyState \in {"OPEN", "CLOSING"}
               /\ ws[c].isAlive # "false") =>
               /\ ws'[c].isAlive = "false"
               /\ ws'[c].terminated = ws[c].terminated
               /\ ws'[c].readyState = ws[c].readyState
        /\ (last'.op = "pong" /\ last'.conn = c) =>
               /\ ws'[c].isAlive = "true"
               /\ ~ws'[c].terminated

C29_AckedNeverTerminated == [][C29_LivenessStep]_vars

\* one sweep has terminated a silent connection and has probed, without
\* terminating it, a connection whose flag was true
C29_Witness ==
    /\ last.op = "heartbeat"
    /\ \E c \in Conns : ws[c].terminated /\ ws[c].registered
    /\ \E d \in Conns :
           /\ ws[d].registered
           /\ IsOpen(d)
           /\ ~ws[d].terminated
           /\ ws[d].isAlive = "false"

(***************************************************************************)
(* C30  The HTTP side channel is read-only: a request (any method, any      *)
(* path) leaves the rooms, their members and timestamps, the four counters  *)
(* and every socket unchanged and sends nothing to any connection.          *)
(* /status answers with the counters, /rooms with the rooms, any other      *)
(* path with 404.                                                           *)
(***************************************************************************)
C30_HttpStep ==
    last'.op = "http" =>
        /\ rooms' = rooms
        /\ stats' = stats
        /\ ws' = ws
        /\ sent' = <<>>
        /\ calls' = <<>>
        /\ LET req == last'.arg.req
               res == last'.arg.res
           IN  /\ (req.method # "OPTIONS" /\ req.pathname = "/status") =>
                      res.code = 200 /\ res.body.stats = stats
               /\ (req.method # "OPTIONS" /\ req.pathname = "/rooms") =>
                      res.code = 200 /\ DOMAIN res.body = RoomIdsOf(rooms)
               /\ (req.method # "OPTIONS" /\ req.pathname = "/other") =>
                      res.code = 404

C30_HttpReadOnly == [][C30_HttpStep]_vars

\* GET /rooms answered while a room has a member and another one is empty
C30_Witness ==
    /\ last.op = "http"
    /\ last.arg.req = [method |-> "GET", pathname |-> "/rooms"]
    /\ stats.currentConnections = 1
    /\ stats.totalConnections = 2
    /\ \E id \in DOMAIN last.arg.res.body : last.arg.res.body[id].clientCount = 1

(***************************************************************************)
(* C22  End-to-end mirroring: when a connected, syncing client reports a    *)
(* play, pause or seek change of its player to the relay, every other       *)
(* connected participant of the room that is syncing a player eventually    *)
(* has that play, pause or seek command applied to its player.              *)
(***************************************************************************)
\* the last step was c's report of the change, and its frame went out
Reported(c, change) ==
    /\ last.op = "player_state_changed"
    /\ last.conn = c
    /\ last.arg.change = change
    /\ inbox[c] # <<>>
    /\ FrameType(inbox[c][Len(inbox[c])]) = "player_state"

\* d is another open member of c's room whose client is syncing a player
SyncingPeer(c, d) ==
    /\ d # c
    /\ IsOpen(d)
    /\ d \in Members(ws[c].roomId)
    /\ manager[d].isConnected
    /\ manager[d].isSyncing
    /\ manager[d].currentPlayerId # Absent

Applied(d, change) ==
    \E i \in 1..Len(manager[d].applied) : manager[d].applied[i] = change

C22_Mirroring ==
    \A c \in Conns, d \in Conns, change \in PlayerChanges :
        (Reported(c, change) /\ SyncingPeer(c, d)) ~> Applied(d, change)

(***************************************************************************)
(* C27  The frames of one connection are handled in the order in which     *)
(* they arrived: each run handles the oldest frame not yet handled, and     *)
(* what it relays is appended to the log of every open peer of the room,    *)
(* so every peer has the relayed messages of that connection in the order   *)
(* in which the connection sent them.                                       *)
(***************************************************************************)
FromIn(log, c) == SelectSeq(log, LAMBDA e : e.from = c)

C27_OrderStep ==
    /\ \A c \in Conns :
           (last'.op = "message" /\ last'.conn = c) =>
               LET n == last'.arg.n
               IN  /\ n = manager[c].written - Len(inbox[c]) + 1
                   /\ inbox'[c] = Tail(inbox[c])
                   /\ \A d \in Conns :
                          /\ Len(heard'[d]) >= Len(heard[d])
                          /\ SubSeq(heard'[d], 1, Len(heard[d])) = heard[d]
                          /\ \A i \in Len(heard[d]) + 1..Len(heard'[d]) :
                                 /\ heard'[d][i].from = c
                                 /\ heard'[d][i].n = n
                          /\ (d # c /\ d \in Members(ws[c].roomId) /\ IsOpen(d)) =>
                                 /\ Len(heard'[d]) = Len(heard[d]) + 1
                                 /\ heard'[d][Len(heard'[d])].msg.type =
                                        RelayedType(FrameType(last'.arg))
    /\ \A c \in Conns, d \in Conns :
           LET s == FromIn(heard'[d], c)
           IN  \A i \in 1..Len(s), j \in 1..Len(s) : i < j => s[i].n < s[j].n

C27_ArrivalOrder == [][C27_OrderStep]_vars

\* the second frame of a connection has been handled while both frames
\* were queued behind each other: one peer has both messages in the order
\* sent, a peer that joined later has only the second
C27_Witness ==
    /\ last.op = "message"
    /\ last.arg.n = 2
    /\ \E d \in Conns \ {last.conn} :
           LET s == FromIn(heard[d], last.conn)
           IN  /\ Len(s) = 2
               /\ s[1].msg.type = "sync_started"
               /\ s[2].msg.type = "player_state_update"
    /\ \E d \in Conns \ {last.conn} :
           LET s == FromIn(heard[d], last.conn)
           IN  Len(s) = 1 /\ s[1].n = 2

(***************************************************************************)
(* C32  The reclamation sweep never deletes a room that has a member: a     *)
(* room with at least one member before the sweep is in the registry after  *)
(* it, unchanged, also when it was emptied earlier, still carries an        *)
(* empty-since timestamp older than the grace period, and was rejoined.     *)
(***************************************************************************)
C32_SweepStep ==
    last'.op = "cleanup" =>
        \A i \in 1..Len(rooms) :
            Len(rooms[i].members) > 0 =>
                /\ RoomsHas(rooms', rooms[i].id)
                /\ RoomsGet(rooms', rooms[i].id) = rooms[i]

C32_OccupiedRoomKept == [][C32_SweepStep]_vars

\* a sweep has run over a rejoined room whose marker is older than the
\* grace period, and the room is still there with its member
C32_Witness ==
    /\ last.op = "cleanup"
    /\ \E i \in 1..Len(rooms) :
           /\ Len(rooms[i].members) > 0
           /\ rooms[i].emptySince # NoTime
           /\ now - rooms[i].emptySince > GracePeriod

(***************************************************************************)
(* C34  Every room_info snapshot sent to a joining connection is            *)
(* consistent: its roomSize is the number of peer client ids listed in      *)
(* clients plus one, the joiner itself.                                     *)
(***************************************************************************)
C34_RoomInfoConsistent ==
    \A i \in 1..Len(sent) :
        sent[i].msg.type = "room_info" =>
            sent[i].msg.roomSize = Len(sent[i].msg.clients) + 1

(***************************************************************************)
(* C33  Only current members cause broadcasts: a frame is handled only for  *)
(* a connection that is a member of its room, and once handleDisconnection  *)
(* has removed a connection (at its 'error', before its 'close') the        *)
(* socket hands no further frame to the handlers, so no frame of a removed  *)
(* connection delivers anything to the members of the room.                 *)
(***************************************************************************)
\* handleDisconnection has run for c and the socket has not yet closed
Removed(c) == ws[c].registered /\ ~IsMember(rooms, c)

C33_FrameStep ==
    \A c \in Conns :
        /\ (last'.op = "message" /\ last'.conn = c) =>
               /\ c \in Members(ws[c].roomId)
               /\ \A i \in 1..Len(sent') :
                      sent'[i].room # Absent => sent'[i].room = ws[c].roomId
        /\ Removed(c) =>
               /\ ~ReceiverActive(ws[c])
               /\ ~(last'.op = "message" /\ last'.conn = c)

C31_DelaysDouble ==
    \A k \in 1..Len(wsClient.delays) :
        /\ wsClient.delays[k] > 0
        /\ k > 1 => wsClient.delays[k] = 2 * wsClient.delays[k - 1]

C31_AttemptStep ==
    last'.op = "reconnect_timer" =>
        /\ Len(wsClient'.sockets) = Len(wsClient.sockets) + 1
        /\ LET old == wsClient.sockets[Len(wsClient.sockets)]
               new == wsClient'.sockets[Len(wsClient'.sockets)]
           IN  /\ new.roomId = old.roomId
               /\ new.clientId = old.clientId

C31_ExponentialBackoff == []C31_DelaysDouble /\ [][C31_AttemptStep]_vars

(***************************************************************************)
(* C39  WebSocketClient.reconnectAttempts never exceeds                     *)
(* maxReconnectAttempts, under any interleaving of connect calls, abnormal  *)
(* closes and firings of the timeouts handleClose has scheduled.            *)
(***************************************************************************)
C39_AttemptsBounded == wsClient.reconnectAttempts <= maxReconnectAttempts

(***************************************************************************)
(* C35  In the BackgroundManager isSyncing is true only while isConnected   *)
(* is true, after any sequence of connect, open, close, startSync, stopSync *)
(* and disconnect; in particular a player-state change is sent only on the  *)
(* connection on which startSync was called.                                *)
(***************************************************************************)
C35_SyncingOnlyConnected == background.isSyncing => background.isConnected

C35_ReportStep ==
    (last'.op = "tab_player_state" /\ last'.arg.sentOn # 0) =>
        last'.arg.sentOn = background.syncSocket

C35_SyncingImpliesConnected ==
    []C35_SyncingOnlyConnected /\ [][C35_ReportStep]_vars

(***************************************************************************)
(* C36  In the BackgroundManager isConnected reflects the current socket:   *)
(* the close of a socket that disconnect() has discarded or a later         *)
(* connect() has replaced never sets isConnected to false while the current *)
(* socket is open, and at no time are two sockets open and delivering       *)
(* server messages.                                                         *)
(***************************************************************************)
CurrentOpen(B) == B.wsClient # 0 /\ B.sockets[B.wsClient].readyState = "OPEN"

C36_StaleCloseStep ==
    (/\ last'.op = "manager_close"
     /\ last'.arg.socket # background.wsClient
     /\ CurrentOpen(background)) =>
        background'.isConnected = background.isConnected

C36_OneOpenSocket == Cardinality(OpenSockets(background)) <= 1

C36_ConnectedIsCurrent ==
    []C36_OneOpenSocket /\ [][C36_StaleCloseStep]_vars

(***************************************************************************)
(* C37  After connect(serverUrl, roomId) has succeeded and the socket has   *)
(* opened, a getConnectionStatus query reports connected = true and the     *)
(* room that was joined, until disconnect or the close of the socket.       *)
(***************************************************************************)
\* the only socket the manager has created is open and current
JoinedOnce(B) == Len(B.sockets) = 1 /\ CurrentOpen(B)

C37_StatusReportsRoom ==
    (last.op = "get_connection_status" /\ JoinedOnce(background)) =>
        /\ last.arg.connected
        /\ last.arg.roomId = background.sockets[1].roomId


(***************************************************************************)
(* C38  While sync is enabled for a selected player, a state change of      *)
(* that player is still reported to the background after any player rescan: *)
(* the player keeps the id stored in currentPlayerId across rescans.        *)
(***************************************************************************)
\* sync is running for an element that startSync found
Syncing(C) == C.syncEnabled /\ C.intervalId /\ C.selected # 0

\* the listed players that stand for the selected element
SelectedPlayers(C) ==
    {i \in DOMAIN C.players : C.players[i].element = C.selected}

\* the selected element's state differs from the state recorded for it, and
\* the throttle of onPlayerStateChange lets a report through
ChangePending(C) ==
    /\ \E i \in SelectedPlayers(C) : hasStateChanged(C.players[i], C)
    /\ C.clock - C.lastSyncTime >= syncThreshold

\* the selected player keeps the id stored in currentPlayerId
C38_IdKept ==
    Syncing(content) =>
        \E i \in SelectedPlayers(content) :
            content.players[i].id = content.currentPlayerId

\* a run of the monitor that sees the change after a rescan reports it
C38_ReportStep ==
    (/\ last'.op = "monitor_tick"
     /\ Syncing(content)
     /\ content.rescanned
     /\ ChangePending(content)) =>
        \E n \in DOMAIN last'.arg.reports :
            last'.arg.reports[n].element = content.selected

C38_ReportedAfterRescan == []C38_IdKept /\ [][C38_ReportStep]_vars

====
